---- MODULE Spec2Model ----
(***************************************************************************)
(* A model of the cpp-chess position library: bitboard primitives, the     *)
(* BaseBoard piece masks, the Board with its move stack, and the           *)
(* termination predicates.                                                 *)
(*                                                                         *)
(* A Bitboard (unsigned long long) is modelled as the set of the indices   *)
(* of its set bits, a subset of 0..63: | is \cup, & is \cap, ^ is the      *)
(* symmetric difference, ~ is the complement in 0..63, and the shifts drop *)
(* the bits that leave the 64-bit word.  A std::optional is the empty      *)
(* tuple (nullopt) or a one-element tuple.  A char is its ASCII code.      *)
(***************************************************************************)
EXTENDS Integers, Sequences, FiniteSets, TLC

VARIABLES board, call, ret

vars == <<board, call, ret>>

(***************************************************************************)
(* std::optional                                                           *)
(***************************************************************************)
nullopt == <<>>
Some(x) == <<x>>
has_value(o) == o # <<>>
value(o) == o[1]

(***************************************************************************)
(* enum Color : bool, enum class PieceType                                 *)
(***************************************************************************)
WHITE == 0
BLACK == 1
Colors == {WHITE, BLACK}
\* !color on a Color
NotColor(c) == 1 - c
\* (Color)x for a Bitboard x: the conversion to the underlying bool
ColorOfBB(bb) == IF bb # {} THEN 1 ELSE 0

PAWN == 1
KNIGHT == 2
BISHOP == 3
ROOK == 4
QUEEN == 5
KING == 6
PieceTypes == PAWN..KING

(***************************************************************************)
(* Bitboard constants                                                      *)
(***************************************************************************)
SquareCount == 64
AllSquares == 0..(SquareCount - 1)
BB_EMPTY == {}
BB_ALL == AllSquares
BB_SQUARES == [i \in AllSquares |-> {i}]
BB_FILES == [i \in 0..7 |-> {s \in AllSquares : s % 8 = i}]
BB_RANKS == [i \in 0..7 |-> {s \in AllSquares : s \div 8 = i}]
BB_FILE_A == BB_FILES[0]
BB_FILE_B == BB_FILES[1]
BB_FILE_C == BB_FILES[2]
BB_FILE_D == BB_FILES[3]
BB_FILE_E == BB_FILES[4]
BB_FILE_F == BB_FILES[5]
BB_FILE_G == BB_FILES[6]
BB_FILE_H == BB_FILES[7]
BB_RANK_1 == BB_RANKS[0]
BB_RANK_2 == BB_RANKS[1]
BB_RANK_3 == BB_RANKS[2]
BB_RANK_4 == BB_RANKS[3]
BB_RANK_5 == BB_RANKS[4]
BB_RANK_6 == BB_RANKS[5]
BB_RANK_7 == BB_RANKS[6]
BB_RANK_8 == BB_RANKS[7]
BB_BACKRANKS == BB_RANK_1 \cup BB_RANK_8
BB_CORNERS == {0, 7, 56, 63}
\* 0x55aa55aa55aa55aa and 0xaa55aa55aa55aa55
BB_LIGHT_SQUARES == {s \in AllSquares : ((s \div 8) + (s % 8)) % 2 = 1}
BB_DARK_SQUARES == {s \in AllSquares : ((s \div 8) + (s % 8)) % 2 = 0}

\* the bit indices the BB_<name> constants set (1ULL << i)
SQ_A1 == 0
SQ_B1 == 1
SQ_C1 == 2
SQ_D1 == 3
SQ_E1 == 4
SQ_F1 == 5
SQ_G1 == 6
SQ_H1 == 7
SQ_B8 == 57
SQ_C8 == 58
SQ_D8 == 59
SQ_E8 == 60
SQ_F8 == 61
SQ_G8 == 62

\* enum Square enumerates file by file (A1, A2, .., A8, B1, ..): the
\* enumerator H1 has the value 56
H1 == 56
A1 == 0

(***************************************************************************)
(* Bitboard arithmetic on sets of bit indices                              *)
(***************************************************************************)
Xor(a, b) == (a \ b) \cup (b \ a)
Not(a) == AllSquares \ a
Shl(bb, n) == {s + n : s \in {t \in bb : t + n < SquareCount}}
Shr(bb, n) == {s - n : s \in {t \in bb : t >= n}}
MinOf(S) == CHOOSE x \in S : \A y \in S : x <= y
MaxOf(S) == CHOOSE x \in S : \A y \in S : x >= y

\* __builtin_ctzll; undefined for 0
lsb(bb) == MinOf(bb)
\* msb returns __builtin_clzll(bb), the number of leading zero bits
msb(bb) == (SquareCount - 1) - MaxOf(bb)
popcount(bb) == Cardinality(bb)

\* 0x00ff00ff00ff00ff, 0x0000ffff0000ffff, 0x00000000ffffffff
K_00FF == {s \in AllSquares : (s \div 8) % 2 = 0}
K_0000FFFF == {s \in AllSquares : (s \div 16) % 2 = 0}
K_LOW32 == {s \in AllSquares : s < 32}

flip_vertical_unmasked(bb) ==
    LET b1 == Shr(bb, 8) \cup Shl(bb \cap K_00FF, 8)
        b2 == (Shr(b1, 16) \cap K_0000FFFF) \cup Shl(b1 \cap K_0000FFFF, 16)
    IN  Shr(b2, 32) \cup Shl(b2 \cap K_LOW32, 32)

flip_vertical(bb) ==
    LET b1 == (Shr(bb, 8) \cap K_00FF) \cup Shl(bb \cap K_00FF, 8)
        b2 == (Shr(b1, 16) \cap K_0000FFFF) \cup Shl(b1 \cap K_0000FFFF, 16)
    IN  Shr(b2, 32) \cup Shl(b2 \cap K_LOW32, 32)

square_file(sq) == sq % 8
square_rank(sq) == sq \div 8
Abs(x) == IF x < 0 THEN -x ELSE x
Max2(a, b) == IF a >= b THEN a ELSE b
Min2(a, b) == IF a <= b THEN a ELSE b
square_distance(a, b) ==
    Max2(Abs(square_file(a) - square_file(b)), Abs(square_rank(a) - square_rank(b)))

(***************************************************************************)
(* BaseBoard: the masks, as fields of the board record                     *)
(***************************************************************************)
\* _reset_board
_reset_board(b) ==
    [b EXCEPT !.pawns = BB_RANK_2 \cup BB_RANK_7,
              !.knights = {SQ_B1, SQ_G1, SQ_B8, SQ_G8},
              !.bishops = {SQ_C1, SQ_F1, SQ_C8, SQ_F8},
              !.rooks = BB_CORNERS,
              !.queens = {SQ_D1, SQ_D8},
              !.kings = {SQ_E1, SQ_E8},
              !.promoted = BB_EMPTY,
              !.occupied_co = [c \in Colors |->
                  IF c = WHITE THEN BB_RANK_1 \cup BB_RANK_2
                               ELSE BB_RANK_7 \cup BB_RANK_8],
              !.occupied = BB_RANK_1 \cup BB_RANK_2 \cup BB_RANK_7 \cup BB_RANK_8]

\* _clear_board
_clear_board(b) ==
    [b EXCEPT !.pawns = BB_EMPTY, !.knights = BB_EMPTY, !.bishops = BB_EMPTY,
              !.rooks = BB_EMPTY, !.queens = BB_EMPTY, !.kings = BB_EMPTY,
              !.promoted = BB_EMPTY,
              !.occupied_co = [c \in Colors |-> BB_EMPTY],
              !.occupied = BB_EMPTY]

\* piece_type_at: the masks are consulted in a fixed order
piece_type_at(b, square) ==
    LET mask == BB_SQUARES[square] IN
    IF b.occupied \cap mask = {} THEN nullopt
    ELSE IF b.pawns \cap mask # {} THEN Some(PAWN)
    ELSE IF b.knights \cap mask # {} THEN Some(KNIGHT)
    ELSE IF b.bishops \cap mask # {} THEN Some(BISHOP)
    ELSE IF b.rooks \cap mask # {} THEN Some(ROOK)
    ELSE IF b.queens \cap mask # {} THEN Some(QUEEN)
    ELSE Some(KING)

Piece(p, c) == [piece_type |-> p, color |-> c]

\* piece_at: the colour is (Color)(occupied_co[WHITE] & mask)
piece_at(b, square) ==
    LET piece_type == piece_type_at(b, square) IN
    IF has_value(piece_type)
    THEN Some(Piece(value(piece_type),
                    ColorOfBB(b.occupied_co[WHITE] \cap BB_SQUARES[square])))
    ELSE nullopt

\* color_at
color_at(b, square) ==
    LET mask == BB_SQUARES[square] IN
    IF b.occupied_co[WHITE] \cap mask # {} THEN Some(WHITE)
    ELSE IF b.occupied_co[BLACK] \cap mask # {} THEN Some(BLACK)
    ELSE nullopt

\* _remove_piece_at: the board after the call and the returned piece type
_remove_piece_at(b, square) ==
    LET piece_type == piece_type_at(b, square)
        mask == BB_SQUARES[square]
    IN  IF ~has_value(piece_type) THEN [board |-> b, ret |-> nullopt]
        ELSE LET pt == value(piece_type) IN
          [board |->
            [b EXCEPT !.pawns = IF pt = PAWN THEN Xor(@, mask) ELSE @,
                      !.knights = IF pt = KNIGHT THEN Xor(@, mask) ELSE @,
                      !.bishops = IF pt = BISHOP THEN Xor(@, mask) ELSE @,
                      !.rooks = IF pt = ROOK THEN Xor(@, mask) ELSE @,
                      !.queens = IF pt = QUEEN THEN Xor(@, mask) ELSE @,
                      !.kings = IF pt = KING THEN Xor(@, mask) ELSE @,
                      !.occupied = Xor(@, mask),
                      !.occupied_co = [c \in Colors |-> @[c] \ mask],
                      !.promoted = @ \ mask],
           ret |-> piece_type]

\* BaseBoard::remove_piece_at: the colour is read before the removal
BaseBoard_remove_piece_at(b, square) ==
    LET color == ColorOfBB(b.occupied_co[WHITE] \cap BB_SQUARES[square])
        r == _remove_piece_at(b, square)
    IN  [board |-> r.board,
         ret |-> IF has_value(r.ret) THEN Some(Piece(value(r.ret), color))
                 ELSE nullopt]

\* the body of _set_piece_at after its call of _remove_piece_at
SetMasks(b0, square, piece_type, color, was_promoted) ==
    LET mask == BB_SQUARES[square] IN
    IF piece_type \notin PieceTypes THEN b0
    ELSE [b0 EXCEPT
            !.pawns = IF piece_type = PAWN THEN @ \cup mask ELSE @,
            !.knights = IF piece_type = KNIGHT THEN @ \cup mask ELSE @,
            !.bishops = IF piece_type = BISHOP THEN @ \cup mask ELSE @,
            !.rooks = IF piece_type = ROOK THEN @ \cup mask ELSE @,
            !.queens = IF piece_type = QUEEN THEN @ \cup mask ELSE @,
            !.kings = IF piece_type = KING THEN @ \cup mask ELSE @,
            !.occupied = Xor(@, mask),
            !.occupied_co = [@ EXCEPT ![color] = Xor(@, mask)],
            !.promoted = IF was_promoted THEN Xor(@, mask) ELSE @]

\* a _set_piece_at that does not remove the piece already on the square
_set_piece_at_keep(b, square, piece_type, color, was_promoted) ==
    SetMasks(b, square, piece_type, color, was_promoted)

\* _set_piece_at
_set_piece_at(b, square, piece_type, color, was_promoted) ==
    SetMasks(_remove_piece_at(b, square).board, square, piece_type, color, was_promoted)

\* BaseBoard::set_piece_at
BaseBoard_set_piece_at(b, square, piece, was_promoted) ==
    IF ~has_value(piece) THEN _remove_piece_at(b, square).board
    ELSE _set_piece_at(b, square, value(piece).piece_type, value(piece).color,
                       was_promoted)

\* apply_transform(f) with f = flip_vertical, the one transform apply_mirror
\* passes to it
apply_transform_flip_vertical(b) ==
    [b EXCEPT !.pawns = flip_vertical(@), !.knights = flip_vertical(@),
              !.bishops = flip_vertical(@), !.rooks = flip_vertical(@),
              !.queens = flip_vertical(@), !.kings = flip_vertical(@),
              !.occupied_co = [c \in Colors |-> flip_vertical(@[c])],
              !.occupied = flip_vertical(@), !.promoted = flip_vertical(@)]

\* apply_mirror: flip every mask, then swap the two colour masks
apply_mirror(b) ==
    LET t == apply_transform_flip_vertical(b) IN
    [t EXCEPT !.occupied_co =
        [c \in Colors |-> t.occupied_co[NotColor(c)]]]

\* the ten masks of a board
Masks(b) ==
    <<b.pawns, b.knights, b.bishops, b.rooks, b.queens, b.kings,
      b.occupied_co[WHITE], b.occupied_co[BLACK], b.occupied, b.promoted>>

(***************************************************************************)
(* Board: construction, reset and clear                                    *)
(***************************************************************************)
\* the fields of a Board before any of them is assigned
BlankBoard ==
    [occupied_co |-> [c \in Colors |-> BB_EMPTY],
     pawns |-> BB_EMPTY, knights |-> BB_EMPTY, bishops |-> BB_EMPTY,
     rooks |-> BB_EMPTY, queens |-> BB_EMPTY, kings |-> BB_EMPTY,
     promoted |-> BB_EMPTY, occupied |-> BB_EMPTY,
     castling_rights |-> BB_EMPTY, halfmove_clock |-> 0, fullmove_number |-> 1,
     ep_square |-> nullopt, turn |-> WHITE, chess960 |-> FALSE,
     move_stack |-> <<>>, _stack |-> <<>>]

\* a variant that forgets the moves and keeps the snapshots
clear_stack_moves_only(b) == [b EXCEPT !.move_stack = <<>>]

\* clear_stack
clear_stack(b) == [b EXCEPT !.move_stack = <<>>, !._stack = <<>>]

\* Board::reset_board and Board::clear_board
Board_reset_board(b) == clear_stack(_reset_board(b))
Board_clear_board(b) == clear_stack(_clear_board(b))

\* Board::reset
reset(b) ==
    Board_reset_board([b EXCEPT !.turn = WHITE, !.castling_rights = BB_CORNERS,
                                !.ep_square = nullopt, !.halfmove_clock = 0,
                                !.fullmove_number = 1])

\* Board::clear
clear(b) ==
    Board_clear_board([b EXCEPT !.turn = WHITE, !.castling_rights = BB_EMPTY,
                                !.ep_square = nullopt, !.halfmove_clock = 0,
                                !.fullmove_number = 1])

(***************************************************************************)
(* Spec: the BaseBoard setters on an empty board or the standard start     *)
(***************************************************************************)
\* the squares the setters are called on: e1, e8 (a pair closed under the
\* vertical flip) and the pieces they place
TouchSquares == {SQ_E1, SQ_E8}

Init ==
    /\ board \in {clear(BlankBoard), reset(BlankBoard)}
    /\ call = <<"init">>
    /\ ret = nullopt

set_piece_at ==
    \E sq \in TouchSquares, pt \in PieceTypes, c \in Colors, pr \in BOOLEAN :
        /\ board' = BaseBoard_set_piece_at(board, sq, Some(Piece(pt, c)), pr)
        /\ call' = <<"set_piece_at", sq, pt, c, pr>>
        /\ ret' = nullopt

remove_piece_at ==
    \E sq \in TouchSquares :
        /\ board' = BaseBoard_remove_piece_at(board, sq).board
        /\ call' = <<"remove_piece_at", sq>>
        /\ ret' = BaseBoard_remove_piece_at(board, sq).ret

reset_board ==
    /\ board' = _reset_board(board)
    /\ call' = <<"reset_board">>
    /\ ret' = nullopt

clear_board ==
    /\ board' = _clear_board(board)
    /\ call' = <<"clear_board">>
    /\ ret' = nullopt

mirror ==
    /\ board' = apply_mirror(board)
    /\ call' = <<"apply_mirror">>
    /\ ret' = nullopt

Next == set_piece_at \/ remove_piece_at \/ reset_board \/ clear_board \/ mirror

Spec == Init /\ [][Next]_vars

(***************************************************************************)
(* C1: after any sequence of set_piece_at, remove_piece_at, reset_board,   *)
(* clear_board and apply_mirror from an empty board or the standard start, *)
(* the six piece-type masks are pairwise disjoint and their union is       *)
(* occupied, the two colour masks are disjoint and their union is          *)
(* occupied, and promoted is a subset of occupied.                         *)
(***************************************************************************)
TypeMasks(b) == <<b.pawns, b.knights, b.bishops, b.rooks, b.queens, b.kings>>

BoardInvariants(b) ==
    /\ \A i, j \in 1..6 : i # j => TypeMasks(b)[i] \cap TypeMasks(b)[j] = {}
    /\ UNION {TypeMasks(b)[i] : i \in 1..6} = b.occupied
    /\ b.occupied_co[WHITE] \cap b.occupied_co[BLACK] = {}
    /\ b.occupied_co[WHITE] \cup b.occupied_co[BLACK] = b.occupied
    /\ b.promoted \subseteq b.occupied

C1_Invariants == BoardInvariants(board)

\* a promoted black queen has replaced the white king of the standard start
C1_Witness ==
    /\ call = <<"set_piece_at", SQ_E1, QUEEN, BLACK, TRUE>>
    /\ SQ_E1 \in board.queens /\ SQ_E1 \in board.promoted
    /\ SQ_E1 \in board.occupied_co[BLACK]
    /\ SQ_D1 \in board.queens /\ SQ_E8 \in board.kings

(***************************************************************************)
(* C5: mirror is an involution: applying apply_mirror twice to a board     *)
(* that satisfies the board invariants gives back its ten masks.           *)
(***************************************************************************)
C5_MirrorInvolution ==
    BoardInvariants(board) => Masks(apply_mirror(apply_mirror(board))) = Masks(board)

\* a board that is not its own mirror image has been mirrored
C5_Witness ==
    /\ call = <<"apply_mirror">>
    /\ Masks(apply_mirror(board)) # Masks(board)
    /\ board.occupied # {}

(***************************************************************************)
(* Chess960 starting positions                                             *)
(***************************************************************************)
MaxScharnagl == 959

\* the loop over n1 of _set_chess960_pos: n2 = n + (3 - n1) * (4 - n1); the
\* rest of the source line is a comment.  <<n1, n2>> when the loop ends.
RECURSIVE KnightIndexLoop(_, _)
KnightIndexLoop(n, n1) ==
    LET n2 == n + (3 - n1) * (4 - n1) IN
    IF n1 < n2 /\ 1 <= n2 /\ n2 <= 4 THEN <<n1, n2>>
    ELSE IF n1 + 1 < 4 THEN KnightIndexLoop(n, n1 + 1)
    ELSE <<n1 + 1, n2>>

\* the loop that places the knights: <<knights, used>> after file i..7
RECURSIVE KnightLoop(_, _, _, _, _)
KnightLoop(i, used, n1, n2, knights) ==
    IF i >= 8 THEN <<knights, used>>
    ELSE IF i \notin used
         THEN IF n1 = 0 \/ n2 = 0
              THEN KnightLoop(i + 1, used \cup {i}, n1 - 1, n2 - 1,
                              knights \cup (BB_FILES[i] \cap BB_BACKRANKS))
              ELSE KnightLoop(i + 1, used, n1 - 1, n2 - 1, knights)
         ELSE KnightLoop(i + 1, used, n1, n2, knights)

\* the first file in from..7 that is not used, as an optional
FirstFree(from, used) ==
    LET free == {i \in from..7 : i \notin used} IN
    IF free = {} THEN nullopt ELSE Some(MinOf(free))

\* _set_chess960_pos for 0 <= scharnagl <= 959
_set_chess960_pos(b, scharnagl) ==
    LET bw == scharnagl % 4
        n__ == scharnagl \div 4
        bb == n__ % 4
        n_ == n__ \div 4
        q == n_ % 6
        n == n_ \div 6
        nn == KnightIndexLoop(n, 0)
        bw_file == bw * 2 + 1
        bb_file == bb * 2
        q1 == q + (IF Min2(bw_file, bb_file) <= q THEN 1 ELSE 0)
        q_file == q1 + (IF Max2(bw_file, bb_file) <= q1 THEN 1 ELSE 0)
        used0 == {bw_file, bb_file, q_file}
        kn == KnightLoop(0, used0, nn[1], nn[2], BB_EMPTY)
        used1 == kn[2]
        r1 == FirstFree(0, used1)
        rooks1 == IF has_value(r1) THEN BB_FILES[value(r1)] \cap BB_BACKRANKS
                  ELSE b.rooks
        used2 == IF has_value(r1) THEN used1 \cup {value(r1)} ELSE used1
        k == FirstFree(1, used2)
        kings1 == IF has_value(k) THEN BB_FILES[value(k)] \cap BB_BACKRANKS
                  ELSE b.kings
        used3 == IF has_value(k) THEN used2 \cup {value(k)} ELSE used2
        r2 == FirstFree(2, used3)
        rooks2 == IF has_value(r2)
                  THEN rooks1 \cup (BB_FILES[value(r2)] \cap BB_BACKRANKS)
                  ELSE rooks1
    IN  [b EXCEPT
            !.bishops = (BB_FILES[bw_file] \cup BB_FILES[bb_file]) \cap BB_BACKRANKS,
            !.queens = BB_FILES[q_file] \cap BB_BACKRANKS,
            !.knights = kn[1],
            !.rooks = rooks2,
            !.kings = kings1,
            !.pawns = BB_RANK_2 \cup BB_RANK_7,
            !.occupied_co = [c \in Colors |->
                IF c = WHITE THEN BB_RANK_1 \cup BB_RANK_2
                             ELSE BB_RANK_7 \cup BB_RANK_8],
            !.occupied = BB_RANK_1 \cup BB_RANK_2 \cup BB_RANK_7 \cup BB_RANK_8,
            !.promoted = BB_EMPTY]

\* x != y | z on bitboards parses as (x != y) | z: the comparison gives 0 or
\* 1, which is or-ed with z, and the result is tested for being non-zero
NeqThenOr(x, y, z) == ((IF x # y THEN {0} ELSE {}) \cup z) # {}

\* the scan of the squares A1 .. H1 (the enumerator values 0 .. 56) in
\* chess960_pos; st carries q, qf, n0, n1, n0f, n1f, rf and the early exit
RECURSIVE Chess960Scan(_, _, _)
Chess960Scan(b, square, st) ==
    IF st.fail \/ square >= H1 + 1 THEN st
    ELSE
      LET bb == BB_SQUARES[square]
          rk == bb \cap b.rooks # {} \/ bb \cap b.kings # {}
          isk == bb \cap b.kings # {}
          stepQ(s) == IF ~s.qf THEN [s EXCEPT !.q = @ + 1] ELSE s
          stepN(s) == IF ~s.n0f THEN [s EXCEPT !.n0 = @ + 1]
                      ELSE IF ~s.n1f THEN [s EXCEPT !.n1 = @ + 1] ELSE s
          flagN(s) == IF ~s.n0f THEN [s EXCEPT !.n0f = TRUE]
                      ELSE IF ~s.n1f THEN [s EXCEPT !.n1f = TRUE] ELSE s
          next ==
            IF bb \cap b.queens # {} THEN [st EXCEPT !.qf = TRUE]
            ELSE IF rk
                 THEN IF isk /\ st.rf # 1 THEN [st EXCEPT !.fail = TRUE]
                      ELSE stepN(stepQ(IF isk THEN st ELSE [st EXCEPT !.rf = @ + 1]))
            ELSE IF bb \cap b.knights # {} THEN flagN(stepQ(st))
            ELSE st
      IN  Chess960Scan(b, square + 1, next)

\* chess960_pos
chess960_pos(b) ==
    LET counts == <<<<b.bishops, 4>>, <<b.rooks, 4>>, <<b.knights, 4>>,
                    <<b.queens, 2>>, <<b.kings, 2>>>>
        x1 == b.bishops \cap {1, 3, 5, 7}
        x2 == b.bishops \cap {0, 2, 4, 6}
        st0 == [q |-> 0, qf |-> FALSE, n0 |-> 0, n1 |-> 0, n0f |-> FALSE,
                n1f |-> FALSE, rf |-> 0, fail |-> FALSE]
        n0s == <<0, 4, 7, 9>>
    IN
    IF NeqThenOr(b.occupied_co[WHITE], BB_RANK_1, BB_RANK_2) THEN nullopt
    ELSE IF NeqThenOr(b.occupied_co[BLACK], BB_RANK_7, BB_RANK_8) THEN nullopt
    ELSE IF NeqThenOr(b.pawns, BB_RANK_2, BB_RANK_7) THEN nullopt
    ELSE IF b.promoted # {} THEN nullopt
    ELSE IF \E i \in 1..5 : popcount(counts[i][1]) # counts[i][2] THEN nullopt
    ELSE IF \E i \in 1..5 :
              Shl(BB_RANK_1 \cap counts[i][1], 56) # BB_RANK_8 \cap counts[i][1]
         THEN nullopt
    ELSE IF x1 = {} THEN nullopt
    ELSE IF x2 = {} THEN nullopt
    ELSE LET st == Chess960Scan(b, A1, st0)
             cc_pos == (lsb(x1) - 1) + lsb(x2) * 2
         IN  IF st.fail THEN nullopt
             ELSE IF st.n0 < 4 /\ st.n1f /\ st.qf
                  THEN Some(cc_pos + st.q * 16 + (n0s[st.n0 + 1] + st.n1) * 96)
                  ELSE nullopt

(***************************************************************************)
(* Spec960: set_chess960_pos(n) on a fresh board, then chess960_pos()      *)
(***************************************************************************)
Init960 ==
    /\ board = clear(BlankBoard)
    /\ call = <<"init">>
    /\ ret = nullopt

set_chess960_pos ==
    \E n \in 0..MaxScharnagl :
        /\ call[1] = "init"
        /\ board' = _set_chess960_pos(board, n)
        /\ call' = <<"set_chess960_pos", n>>
        /\ ret' = nullopt

call_chess960_pos ==
    /\ call[1] = "set_chess960_pos"
    /\ call' = <<"chess960_pos", call[2]>>
    /\ ret' = chess960_pos(board)
    /\ UNCHANGED board

Next960 == set_chess960_pos \/ call_chess960_pos

Spec960 == Init960 /\ [][Next960]_vars

(***************************************************************************)
(* C6: for every n in 0..959, chess960_pos() on the board produced by      *)
(* set_chess960_pos(n) returns n, and never absent.                        *)
(***************************************************************************)
C6_RoundTrip ==
    call[1] = "chess960_pos" => ret = Some(call[2])

(***************************************************************************)
(* C7: for every n in 0..959 the position produced by set_chess960_pos(n)  *)
(* satisfies the board invariants; on each back rank every square carries  *)
(* exactly one piece type, with one king, one queen, two rooks, two        *)
(* knights and two bishops, the bishops on opposite-coloured squares and   *)
(* the king between the rooks; both back ranks have the same file layout.  *)
(***************************************************************************)
FilesOf(bb, rank) == {square_file(s) : s \in bb \cap rank}

BackRankOk(b, rank) ==
    /\ \A s \in rank : Cardinality({i \in 1..6 : s \in TypeMasks(b)[i]}) = 1
    /\ Cardinality(b.kings \cap rank) = 1
    /\ Cardinality(b.queens \cap rank) = 1
    /\ Cardinality(b.rooks \cap rank) = 2
    /\ Cardinality(b.knights \cap rank) = 2
    /\ Cardinality(b.bishops \cap rank) = 2
    /\ Cardinality(b.bishops \cap rank \cap BB_LIGHT_SQUARES) = 1
    /\ \A k \in FilesOf(b.kings, rank) :
          /\ \E r \in FilesOf(b.rooks, rank) : r < k
          /\ \E r \in FilesOf(b.rooks, rank) : r > k

Chess960StartOk(b) ==
    /\ BoardInvariants(b)
    /\ BackRankOk(b, BB_RANK_1)
    /\ BackRankOk(b, BB_RANK_8)
    /\ \A i \in 1..6 :
          FilesOf(TypeMasks(b)[i], BB_RANK_1) = FilesOf(TypeMasks(b)[i], BB_RANK_8)

C7_ValidStart ==
    call[1] = "set_chess960_pos" => Chess960StartOk(board)

(***************************************************************************)
(* Attack tables                                                           *)
(***************************************************************************)
\* one direction of _sliding_attacks: walk from sq by delta until the edge
\* of the board or the first occupied square (which is included)
RECURSIVE SlideFrom(_, _, _)
SlideFrom(sq, delta, occ) ==
    LET nxt == sq + delta IN
    IF ~(0 <= nxt /\ nxt < SquareCount) \/ square_distance(nxt, sq) > 2
    THEN BB_EMPTY
    ELSE IF nxt \in occ THEN {nxt}
    ELSE {nxt} \cup SlideFrom(nxt, delta, occ)

\* a faulty variant of _sliding_attacks: the ray does not stop at an occupied
\* square
_sliding_attacks_through(square, occ, deltas) ==
    UNION {SlideFrom(square, d, BB_EMPTY) : d \in deltas}

_sliding_attacks(square, occ, deltas) ==
    UNION {SlideFrom(square, d, occ) : d \in deltas}

_step_attacks(square, deltas) == _sliding_attacks(square, BB_ALL, deltas)

_KNIGHT_OFFSETS == {17, 15, 10, 6, -17, -15, -10, -6}
_KING_OFFSETS == {9, 8, 7, 1, -9, -8, -7, -1}
_DIAG == {-9, -7, 7, 9}
_FILE == {-8, 8}
_RANK == {-1, 1}

BB_KNIGHT_ATTACKS == [sq \in AllSquares |-> _step_attacks(sq, _KNIGHT_OFFSETS)]
BB_KING_ATTACKS == [sq \in AllSquares |-> _step_attacks(sq, _KING_OFFSETS)]

\* the literal table: row 0 holds the attacks towards rank 1, row 1 the
\* attacks towards rank 8
BB_PAWN_ATTACKS ==
    [c \in Colors |-> [sq \in AllSquares |->
        _step_attacks(sq, IF c = 0 THEN {-7, -9} ELSE {7, 9})]]

\* a faulty _edges that takes the whole border, the square's own rank and
\* file included
_edges_border(square) ==
    BB_RANK_1 \cup BB_RANK_8 \cup BB_FILE_A \cup BB_FILE_H

_edges(square) ==
    ((BB_RANK_1 \cup BB_RANK_8) \ BB_RANKS[square_rank(square)])
    \cup ((BB_FILE_A \cup BB_FILE_H) \ BB_FILES[square_file(square)])

\* _attack_table: the mask of a square, and the attack set stored under
\* each subset of the mask
AttackMask(square, deltas) ==
    _sliding_attacks(square, BB_EMPTY, deltas) \ _edges(square)

BB_DIAG_MASKS == [sq \in AllSquares |-> AttackMask(sq, _DIAG)]
BB_FILE_MASKS == [sq \in AllSquares |-> AttackMask(sq, _FILE)]
BB_RANK_MASKS == [sq \in AllSquares |-> AttackMask(sq, _RANK)]

BB_DIAG_ATTACKS(square, subset) == _sliding_attacks(square, subset, _DIAG)
BB_FILE_ATTACKS(square, subset) == _sliding_attacks(square, subset, _FILE)
BB_RANK_ATTACKS(square, subset) == _sliding_attacks(square, subset, _RANK)

\* BB_RAYS[a][b]
ray(a, b) ==
    IF b \in BB_DIAG_ATTACKS(a, BB_EMPTY)
    THEN (BB_DIAG_ATTACKS(a, BB_EMPTY) \cap BB_DIAG_ATTACKS(b, BB_EMPTY))
         \cup {a, b}
    ELSE IF b \in BB_RANK_ATTACKS(a, BB_EMPTY)
    THEN BB_RANK_ATTACKS(a, BB_EMPTY) \cup {a}
    ELSE IF b \in BB_FILE_ATTACKS(a, BB_EMPTY)
    THEN BB_FILE_ATTACKS(a, BB_EMPTY) \cup {a}
    ELSE BB_EMPTY

\* between: the ray squares from min(a, b) up to max(a, b) - 1, with the
\* lowest of them cleared by bb & (bb - 1)
between(a, b) ==
    LET bb == ray(a, b) \cap Xor(Shl(BB_ALL, a), Shl(BB_ALL, b))
    IN  IF bb = BB_EMPTY THEN BB_EMPTY ELSE bb \ {lsb(bb)}

(***************************************************************************)
(* BaseBoard: king and attackers                                           *)
(***************************************************************************)
\* king(color): the square msb() reports for the unpromoted king
king(b, color) ==
    LET king_mask == (b.occupied_co[color] \cap b.kings) \ b.promoted IN
    IF king_mask # BB_EMPTY THEN Some(msb(king_mask)) ELSE nullopt

attacks_mask(b, square) ==
    IF square \in b.pawns
    THEN BB_PAWN_ATTACKS[ColorOfBB({square} \cap b.occupied_co[WHITE])][square]
    ELSE IF square \in b.knights THEN BB_KNIGHT_ATTACKS[square]
    ELSE IF square \in b.kings THEN BB_KING_ATTACKS[square]
    ELSE
      (IF square \in b.bishops \/ square \in b.queens
       THEN BB_DIAG_ATTACKS(square, BB_DIAG_MASKS[square] \cap b.occupied)
       ELSE BB_EMPTY)
      \cup
      (IF square \in b.rooks \/ square \in b.queens
       THEN BB_RANK_ATTACKS(square, BB_RANK_MASKS[square] \cap b.occupied)
            \cup BB_FILE_ATTACKS(square, BB_FILE_MASKS[square] \cap b.occupied)
       ELSE BB_EMPTY)

_attackers_mask(b, color, square, occ) ==
    LET rank_pieces == BB_RANK_MASKS[square] \cap occ
        file_pieces == BB_FILE_MASKS[square] \cap occ
        diag_pieces == BB_DIAG_MASKS[square] \cap occ
        queens_and_rooks == b.queens \cup b.rooks
        queens_and_bishops == b.queens \cup b.bishops
        attackers ==
            (BB_KING_ATTACKS[square] \cap b.kings)
            \cup (BB_KNIGHT_ATTACKS[square] \cap b.knights)
            \cup (BB_RANK_ATTACKS(square, rank_pieces) \cap queens_and_rooks)
            \cup (BB_FILE_ATTACKS(square, file_pieces) \cap queens_and_rooks)
            \cup (BB_DIAG_ATTACKS(square, diag_pieces) \cap queens_and_bishops)
            \cup (BB_PAWN_ATTACKS[NotColor(color)][square] \cap b.pawns)
    IN  attackers \cap b.occupied_co[color]

attackers_mask(b, color, square) == _attackers_mask(b, color, square, b.occupied)

(***************************************************************************)
(* Move and _BoardState                                                    *)
(***************************************************************************)
Move(from_square, to_square, promotion) ==
    [from_square |-> from_square, to_square |-> to_square,
     promotion |-> promotion, drop |-> nullopt]

\* a snapshot that stores the two colour masks the wrong way round
_BoardState_swapped(b) ==
    [pawns |-> b.pawns, knights |-> b.knights, bishops |-> b.bishops,
     rooks |-> b.rooks, queens |-> b.queens, kings |-> b.kings,
     occupied_w |-> b.occupied_co[BLACK], occupied_b |-> b.occupied_co[WHITE],
     occupied |-> b.occupied, promoted |-> b.promoted, turn |-> b.turn,
     castling_rights |-> b.castling_rights, ep_square |-> b.ep_square,
     halfmove_clock |-> b.halfmove_clock, fullmove_number |-> b.fullmove_number]

\* _BoardState(const Board&)
_BoardState(b) ==
    [pawns |-> b.pawns, knights |-> b.knights, bishops |-> b.bishops,
     rooks |-> b.rooks, queens |-> b.queens, kings |-> b.kings,
     occupied_w |-> b.occupied_co[WHITE], occupied_b |-> b.occupied_co[BLACK],
     occupied |-> b.occupied, promoted |-> b.promoted, turn |-> b.turn,
     castling_rights |-> b.castling_rights, ep_square |-> b.ep_square,
     halfmove_clock |-> b.halfmove_clock, fullmove_number |-> b.fullmove_number]

\* _BoardState::restore(Board&)
restore(state, b) ==
    [b EXCEPT !.pawns = state.pawns, !.knights = state.knights,
              !.bishops = state.bishops, !.rooks = state.rooks,
              !.queens = state.queens, !.kings = state.kings,
              !.occupied_co = [c \in Colors |->
                  IF c = WHITE THEN state.occupied_w ELSE state.occupied_b],
              !.occupied = state.occupied, !.promoted = state.promoted,
              !.turn = state.turn, !.castling_rights = state.castling_rights,
              !.ep_square = state.ep_square,
              !.halfmove_clock = state.halfmove_clock,
              !.fullmove_number = state.fullmove_number]

(***************************************************************************)
(* Make and unmake.  push and pop are called by the source but defined in  *)
(* no file of it; they follow the nine steps of the specification.         *)
(***************************************************************************)
\* a pawn that moves diagonally onto the empty en passant square
is_en_passant(b, m) ==
    /\ b.ep_square = Some(m.to_square)
    /\ m.from_square \in b.pawns
    /\ Abs(m.to_square - m.from_square) \in {7, 9}
    /\ m.to_square \notin b.occupied

is_capture(b, m) ==
    m.to_square \in b.occupied_co[NotColor(b.turn)] \/ is_en_passant(b, m)

\* capture or pawn move: the moves that reset the halfmove clock
is_zeroing(b, m) == is_capture(b, m) \/ m.from_square \in b.pawns

\* the king moves onto a rook of its own side, or more than one file
is_castling(b, m) ==
    /\ m.from_square \in b.kings
    /\ \/ Abs(square_file(m.from_square) - square_file(m.to_square)) > 1
       \/ m.to_square \in (b.rooks \cap b.occupied_co[b.turn])

\* steps 7 and 8 for a castling move: king to the c- or g-file, rook to the
\* d- or f-file of the king's rank
CastleRelocate(b, m, us) ==
    LET from == m.from_square
        to == m.to_square
        base == from - square_file(from)
        a_side == square_file(to) < square_file(from)
        rook == IF to \in (b.rooks \cap b.occupied_co[us]) THEN to
                ELSE IF a_side THEN base ELSE base + 7
        b1 == _remove_piece_at(b, from).board
        b2 == _remove_piece_at(b1, rook).board
        b3 == _set_piece_at(b2, base + (IF a_side THEN 2 ELSE 6), KING, us, FALSE)
    IN  _set_piece_at(b3, base + (IF a_side THEN 3 ELSE 5), ROOK, us, FALSE)

\* step 7 for any other move
Relocate(b, m, us, ep) ==
    LET from == m.from_square
        to == m.to_square
        was_promoted == from \in b.promoted
        r == _remove_piece_at(b, from)
        b1 == IF ep
              THEN _remove_piece_at(r.board, IF us = WHITE THEN to - 8 ELSE to + 8).board
              ELSE r.board
    IN  IF has_value(m.promotion)
        THEN _set_piece_at(b1, to, value(m.promotion), us, TRUE)
        ELSE _set_piece_at(b1, to, value(r.ret), us, was_promoted)

push(b, m) ==
    LET us == b.turn
        from == m.from_square
        to == m.to_square
        ep == is_en_passant(b, m)
        castling == is_castling(b, m)
        king_move == from \in (b.kings \ b.promoted)
        b1 == [b EXCEPT
                 !._stack = Append(@, _BoardState(b)),
                 !.move_stack = Append(@, m),
                 !.halfmove_clock = IF is_zeroing(b, m) THEN 0 ELSE @ + 1,
                 !.fullmove_number = IF us = BLACK THEN @ + 1 ELSE @,
                 !.turn = NotColor(us),
                 !.ep_square = IF from \in b.pawns /\ Abs(to - from) = 16
                               THEN Some((from + to) \div 2) ELSE nullopt,
                 !.castling_rights =
                     (@ \ {from, to}) \
                     (IF king_move
                      THEN (IF us = WHITE THEN BB_RANK_1 ELSE BB_RANK_8)
                      ELSE BB_EMPTY)]
    IN  IF castling THEN CastleRelocate(b1, m, us)
        ELSE Relocate(b1, m, us, ep)

\* pop: the board after the call and the returned move
pop(b) ==
    LET n == Len(b.move_stack)
        m == b.move_stack[n]
        state == b._stack[Len(b._stack)]
        b1 == [b EXCEPT !.move_stack = SubSeq(@, 1, n - 1),
                        !._stack = SubSeq(@, 1, Len(@) - 1)]
    IN  [board |-> restore(state, b1), ret |-> m]

(***************************************************************************)
(* Board: check                                                            *)
(***************************************************************************)
checkers_mask(b) ==
    LET kingpos == king(b, b.turn) IN
    IF has_value(kingpos)
    THEN attackers_mask(b, NotColor(b.turn), value(kingpos))
    ELSE BB_EMPTY

is_check(b) == checkers_mask(b) # BB_EMPTY

\* gives_check: push, is_check, pop
gives_check(b, m) ==
    LET b1 == push(b, m)
        ischeck == is_check(b1)
    IN  [board |-> pop(b1).board, ret |-> ischeck]

(***************************************************************************)
(* Move generation.  The generators are called by the source but defined   *)
(* in no file of it; they follow the specification's description of move   *)
(* generation and its rules of chess.  Moves are generated as sets.        *)
(***************************************************************************)
\* the squares a pawn of the given colour attacks from a square: White
\* pawns attack towards rank 8 (row 1 of the table), Black pawns towards
\* rank 1 (row 0)
pawn_attacks(color, square) ==
    BB_PAWN_ATTACKS[IF color = WHITE THEN 1 ELSE 0][square]

\* the squares from which color attacks square under the occupancy occ
spec_attackers_mask(b, color, square, occ) ==
    LET queens_and_rooks == b.queens \cup b.rooks
        queens_and_bishops == b.queens \cup b.bishops
        attackers ==
            (BB_KING_ATTACKS[square] \cap b.kings)
            \cup (BB_KNIGHT_ATTACKS[square] \cap b.knights)
            \cup (_sliding_attacks(square, occ, _RANK) \cap queens_and_rooks)
            \cup (_sliding_attacks(square, occ, _FILE) \cap queens_and_rooks)
            \cup (_sliding_attacks(square, occ, _DIAG) \cap queens_and_bishops)
            \cup (pawn_attacks(NotColor(color), square) \cap b.pawns)
    IN  attackers \cap b.occupied_co[color]

\* the square of the unpromoted king of a colour
spec_king(b, color) ==
    LET king_mask == (b.occupied_co[color] \cap b.kings) \ b.promoted IN
    IF king_mask # BB_EMPTY THEN Some(MaxOf(king_mask)) ELSE nullopt

\* the side to move is in check
spec_is_check(b) ==
    /\ has_value(spec_king(b, b.turn))
    /\ spec_attackers_mask(b, NotColor(b.turn), value(spec_king(b, b.turn)),
                           b.occupied) # BB_EMPTY

\* some square of path is attacked by the opponent under the occupancy occ
_attacked_for_king(b, path, occ) ==
    \E sq \in path : spec_attackers_mask(b, NotColor(b.turn), sq, occ) # BB_EMPTY

\* the rooks that may still castle: a right counts when a rook of a colour
\* stands on it on that colour's back rank and the colour's king stands on
\* the same rank (without chess960: king on the e-file, rook on a or h)
clean_castling_rights(b) ==
    LET side(c, rank) ==
            LET k == (b.kings \cap b.occupied_co[c] \cap rank) \ b.promoted
                r == b.castling_rights \cap b.rooks \cap b.occupied_co[c] \cap rank
            IN  IF k = BB_EMPTY THEN BB_EMPTY
                ELSE IF b.chess960 THEN r
                ELSE IF k \subseteq BB_FILE_E
                     THEN r \cap (BB_FILE_A \cup BB_FILE_H) ELSE BB_EMPTY
    IN  side(WHITE, BB_RANK_1) \cup side(BLACK, BB_RANK_8)

generate_castling_moves(b, from_mask, to_mask) ==
    LET backrank == IF b.turn = WHITE THEN BB_RANK_1 ELSE BB_RANK_8
        king_mask == ((b.occupied_co[b.turn] \cap b.kings) \ b.promoted)
                     \cap backrank \cap from_mask
    IN  IF king_mask = BB_EMPTY THEN {}
        ELSE
          LET king_sq == lsb(king_mask)
              base == king_sq - square_file(king_sq)
              ok(rook) ==
                LET a_side == rook < king_sq
                    king_to == base + (IF a_side THEN 2 ELSE 6)
                    rook_to == base + (IF a_side THEN 3 ELSE 5)
                    king_path == between(king_sq, king_to)
                    rook_path == between(rook, rook_to)
                IN  /\ (b.occupied \ {king_sq, rook})
                           \cap (king_path \cup rook_path \cup {king_to, rook_to}) = {}
                    /\ ~_attacked_for_king(b, king_path \cup {king_sq},
                                           b.occupied \ {king_sq})
                    /\ ~_attacked_for_king(b, {king_to},
                           ((b.occupied \ {king_sq}) \ {rook}) \cup {rook_to})
              move(rook) ==
                IF b.chess960 THEN Move(king_sq, rook, nullopt)
                ELSE Move(king_sq,
                          base + (IF rook < king_sq THEN 2 ELSE 6), nullopt)
          IN  {move(rook) : rook \in
                 {r \in clean_castling_rights(b) \cap backrank \cap to_mask : ok(r)}}

\* the moves of a pawn from f to t: the four promotions on a back rank
PawnMoves(f, t) ==
    IF t \in BB_BACKRANKS
    THEN {Move(f, t, Some(p)) : p \in {QUEEN, ROOK, BISHOP, KNIGHT}}
    ELSE {Move(f, t, nullopt)}

generate_pseudo_legal_ep(b, from_mask, to_mask) ==
    IF ~has_value(b.ep_square) THEN {}
    ELSE LET ep == value(b.ep_square) IN
      IF ep \notin to_mask \/ ep \in b.occupied THEN {}
      ELSE {Move(f, ep, nullopt) : f \in
              b.pawns \cap b.occupied_co[b.turn] \cap from_mask
              \cap pawn_attacks(NotColor(b.turn), ep)
              \cap (IF b.turn = WHITE THEN BB_RANK_5 ELSE BB_RANK_4)}

generate_pseudo_legal_moves(b, from_mask, to_mask) ==
    LET our_pieces == b.occupied_co[b.turn]
        their_pieces == b.occupied_co[NotColor(b.turn)]
        pawns == b.pawns \cap our_pieces \cap from_mask
        up == IF b.turn = WHITE THEN 8 ELSE -8
        start == IF b.turn = WHITE THEN BB_RANK_2 ELSE BB_RANK_7
        piece_moves ==
            UNION {{Move(f, t, nullopt) :
                      t \in (attacks_mask(b, f) \ our_pieces) \cap to_mask} :
                   f \in (our_pieces \ b.pawns) \cap from_mask}
        captures ==
            UNION {UNION {PawnMoves(f, t) :
                      t \in pawn_attacks(b.turn, f) \cap their_pieces \cap to_mask} :
                   f \in pawns}
        single_moves ==
            UNION {PawnMoves(f, f + up) :
                   f \in {p \in pawns : /\ p + up \in AllSquares
                                        /\ p + up \notin b.occupied
                                        /\ p + up \in to_mask}}
        double_moves ==
            {Move(f, f + 2 * up, nullopt) :
                   f \in {p \in pawns \cap start :
                            /\ p + up \notin b.occupied
                            /\ p + 2 * up \notin b.occupied
                            /\ p + 2 * up \in to_mask}}
    IN  piece_moves \cup generate_castling_moves(b, from_mask, to_mask)
        \cup captures \cup single_moves \cup double_moves
        \cup generate_pseudo_legal_ep(b, from_mask, to_mask)

\* the king of a colour is not attacked by the other colour
king_is_safe(b, color) ==
    \/ ~has_value(spec_king(b, color))
    \/ spec_attackers_mask(b, NotColor(color), value(spec_king(b, color)),
                           b.occupied) = BB_EMPTY

\* a pseudo-legal move is legal when it does not leave the mover's king
\* attacked
leaves_king_safe(b, m) == king_is_safe(push(b, m), b.turn)

generate_legal_moves_masked(b, from_mask, to_mask) ==
    {m \in generate_pseudo_legal_moves(b, from_mask, to_mask) :
        leaves_king_safe(b, m)}

generate_legal_moves(b) == generate_legal_moves_masked(b, BB_ALL, BB_ALL)

(***************************************************************************)
(* SpecGame: push, pop and gives_check on a small middle-game position     *)
(***************************************************************************)
\* the deepest move stack the model explores
MaxGamePly == 3

SQ_E2 == 12
SQ_E3 == 20
SQ_D3 == 19
SQ_D4 == 27
SQ_E4 == 28
SQ_C6 == 42
SQ_A7 == 48
SQ_D7 == 51
SQ_A8 == 56

RECURSIVE PlaceAll(_, _)
PlaceAll(b, pieces) ==
    IF pieces = <<>> THEN b
    ELSE PlaceAll(BaseBoard_set_piece_at(b, pieces[1][1],
                      Some(Piece(pieces[1][2], pieces[1][3])), FALSE),
                  Tail(pieces))

\* White: Ke1 Rh1 Pa7 Pe2; Black: Ke8 Ra8 Nb8 Pd4; White to move, the
\* rooks on h1 and a8 may castle
GamePosition(chess960) ==
    LET b == PlaceAll(clear(BlankBoard),
                 << <<SQ_E1, KING, WHITE>>, <<SQ_H1, ROOK, WHITE>>,
                    <<SQ_A7, PAWN, WHITE>>, <<SQ_E2, PAWN, WHITE>>,
                    <<SQ_E8, KING, BLACK>>, <<SQ_A8, ROOK, BLACK>>,
                    <<SQ_B8, KNIGHT, BLACK>>, <<SQ_D4, PAWN, BLACK>> >>)
    IN  [b EXCEPT !.castling_rights = {SQ_H1, SQ_A8}, !.chess960 = chess960]

\* the moves the model plays: a double pawn advance, its en passant
\* capture, castling in both encodings, a capturing promotion, king, rook
\* and knight moves, a plain capture and a single pawn advance
GameMoves ==
    {Move(SQ_E2, SQ_E4, nullopt), Move(SQ_E1, SQ_G1, nullopt),
     Move(SQ_E1, SQ_H1, nullopt), Move(SQ_H1, SQ_G1, nullopt),
     Move(SQ_A7, SQ_B8, Some(QUEEN)), Move(SQ_E1, SQ_D1, nullopt),
     Move(SQ_D4, SQ_E3, nullopt), Move(SQ_D4, SQ_D3, nullopt),
     Move(SQ_E8, SQ_D7, nullopt), Move(SQ_B8, SQ_C6, nullopt),
     Move(SQ_A8, SQ_A7, nullopt)}

is_pseudo_legal_move(b, m) ==
    m \in generate_pseudo_legal_moves(b, BB_SQUARES[m.from_square],
                                      BB_SQUARES[m.to_square])

InitGame ==
    /\ board \in {GamePosition(c) : c \in BOOLEAN}
    /\ call = <<"init">>
    /\ ret = nullopt

push_move ==
    \E m \in GameMoves :
        /\ Len(board.move_stack) < MaxGamePly
        /\ is_pseudo_legal_move(board, m)
        /\ board' = push(board, m)
        /\ call' = <<"push", m>>
        /\ ret' = nullopt

pop_move ==
    /\ board.move_stack # <<>>
    /\ board' = pop(board).board
    /\ call' = <<"pop">>
    /\ ret' = pop(board).ret

call_gives_check ==
    \E m \in GameMoves :
        /\ is_pseudo_legal_move(board, m)
        /\ board' = gives_check(board, m).board
        /\ call' = <<"gives_check", m>>
        /\ ret' = gives_check(board, m).ret

NextGame == push_move \/ pop_move \/ call_gives_check

SpecGame == InitGame /\ [][NextGame]_vars

(***************************************************************************)
(* C2: for every board and every move m, push(m) followed by pop() gives   *)
(* back every field of the snapshot (the six piece masks, both colour      *)
(* masks, occupied, promoted, turn, castling_rights, ep_square,            *)
(* halfmove_clock, fullmove_number), returns m, and leaves move_stack and  *)
(* _stack with their prior contents and length.                            *)
(***************************************************************************)
C2_PushPopRestores ==
    \A m \in GameMoves :
        is_pseudo_legal_move(board, m) =>
            pop(push(board, m)) = [board |-> board, ret |-> m]

\* pop has taken back the en passant capture d4xe3: the pawn is on e4 again
\* and the en passant square is e3 again
C2_Witness ==
    /\ call = <<"pop">>
    /\ ret = Move(SQ_D4, SQ_E3, nullopt)
    /\ board.ep_square = Some(SQ_E3)
    /\ SQ_E4 \in board.pawns /\ SQ_D4 \in board.pawns
    /\ Len(board.move_stack) = 1 /\ Len(board._stack) = 1

(***************************************************************************)
(* C3: for a pseudo-legal move m, gives_check(m) returns the value         *)
(* is_check() has in the position reached by push(m), and leaves the       *)
(* board (position fields, move_stack and _stack) as it was before the     *)
(* call.                                                                   *)
(***************************************************************************)
C3_GivesCheck ==
    [][call'[1] = "gives_check" =>
          /\ board' = board
          /\ ret' = is_check(push(board, call'[2]))]_vars

\* gives_check has answered for the capturing promotion a7xb8=Q after one
\* move was played
C3_Witness ==
    /\ call = <<"gives_check", Move(SQ_A7, SQ_B8, Some(QUEEN))>>
    /\ ret \in BOOLEAN
    /\ Len(board.move_stack) = 2
    /\ SQ_A7 \in board.pawns /\ SQ_B8 \in board.knights

(***************************************************************************)
(* strtools and piece symbols.  A char is its ASCII code, a std::string a  *)
(* sequence of codes.                                                      *)
(***************************************************************************)
CharCode ==
    ("/" :> 47) @@ ("~" :> 126) @@ (" " :> 32) @@ ("-" :> 45) @@ ("@" :> 64) @@
    ("0" :> 48) @@ ("1" :> 49) @@ ("2" :> 50) @@ ("3" :> 51) @@ ("4" :> 52) @@
    ("5" :> 53) @@ ("6" :> 54) @@ ("7" :> 55) @@ ("8" :> 56) @@
    ("A" :> 65) @@ ("Z" :> 90) @@ ("a" :> 97) @@ ("z" :> 122) @@
    ("P" :> 80) @@ ("N" :> 78) @@ ("B" :> 66) @@ ("R" :> 82) @@
    ("Q" :> 81) @@ ("K" :> 75) @@
    ("p" :> 112) @@ ("n" :> 110) @@ ("b" :> 98) @@ ("r" :> 114) @@
    ("q" :> 113) @@ ("k" :> 107)

\* the std::string spelled by a tuple of one-character strings
Str(s) == [i \in DOMAIN s |-> CharCode[s[i]]]

\* the conversion of an int to char, where char is a signed byte
AsChar(x) == IF x > 127 THEN x - 256 ELSE IF x < -128 THEN x + 256 ELSE x

is_not_lowercase(c) == c < CharCode["a"] \/ c > CharCode["z"]
is_not_uppercase(c) == c < CharCode["A"] \/ c > CharCode["Z"]
unsafe_lower_to_upper(c) == c + (CharCode["A"] - CharCode["a"])
unsafe_upper_to_lower(c) == c + (CharCode["a"] - CharCode["A"])

\* toupper(char) and tolower(char): the conversion is applied to the
\* characters that are NOT of the case to convert from
toupper_char(c) ==
    IF is_not_lowercase(c) THEN AsChar(unsafe_lower_to_upper(c)) ELSE c
tolower_char(c) ==
    IF is_not_uppercase(c) THEN AsChar(unsafe_upper_to_lower(c)) ELSE c

to_int(c) == c - CharCode["0"]

toupper(s) == [i \in DOMAIN s |-> toupper_char(s[i])]
tolower(s) == [i \in DOMAIN s |-> tolower_char(s[i])]
isupper(s) == \A i \in DOMAIN s : is_not_lowercase(s[i])

contains(s, c) == \E i \in DOMAIN s : s[i] = c

\* strip: the string without its leading and trailing spaces
RECURSIVE strip(_)
strip(s) ==
    IF s = <<>> THEN s
    ELSE IF Head(s) = CharCode[" "] THEN strip(Tail(s))
    ELSE IF s[Len(s)] = CharCode[" "] THEN strip(SubSeq(s, 1, Len(s) - 1))
    ELSE s

\* split: the fields between the separators, one more than separators
RECURSIVE split(_, _)
split(s, sep) ==
    IF ~contains(s, sep) THEN <<s>>
    ELSE LET i == CHOOSE j \in DOMAIN s :
                      s[j] = sep /\ \A k \in 1..(j - 1) : s[k] # sep
         IN  <<SubSeq(s, 1, i - 1)>> \o split(SubSeq(s, i + 1, Len(s)), sep)

\* join with the empty separator
RECURSIVE join(_)
join(ss) == IF ss = <<>> THEN <<>> ELSE Head(ss) \o join(Tail(ss))

\* PIECE_SYMBOLS, indexed from 0
PIECE_SYMBOLS ==
    [i \in 0..6 |-> Str(<< <<"-">>, <<"p">>, <<"n">>, <<"b">>, <<"r">>,
                          <<"q">>, <<"k">> >>[i + 1])]

piece_symbol(piece_type) == PIECE_SYMBOLS[piece_type]

\* std::find over PIECE_SYMBOLS: the index of the first equal entry, 7 (the
\* distance to end()) when there is none
FindSymbol(key) ==
    IF \E i \in 0..6 : PIECE_SYMBOLS[i] = key
    THEN CHOOSE i \in 0..6 :
            PIECE_SYMBOLS[i] = key /\ \A j \in 0..(i - 1) : PIECE_SYMBOLS[j] # key
    ELSE 7

\* Piece::symbol
Piece_symbol(piece) ==
    IF piece.color = 1 THEN toupper(piece_symbol(piece.piece_type))
    ELSE piece_symbol(piece.piece_type)

\* Piece::from_symbol(char): std::string str_symbol{1, symbol} is the
\* two-character string of the characters 1 and symbol
Piece_from_symbol(symbol) ==
    LET str_symbol == <<1, symbol>>
        key == tolower(str_symbol)
    IN  Piece(FindSymbol(key), IF isupper(str_symbol) THEN 1 ELSE 0)

\* SQUARES_180
SQUARES_180 == [i \in AllSquares |-> (i % 8) + 8 * (7 - (i \div 8))]

(***************************************************************************)
(* BaseBoard: board_fen and _set_board_fen                                 *)
(***************************************************************************)
\* std::to_string of a count of empty squares
to_string(n) == <<CharCode["0"] + n>>

\* board_fen from the i-th square of SQUARES_180 on, with the run of empty
\* squares counted so far.  was_promoted is a std::optional<bool> and the
\* test `was_promoted && ..` reads whether it holds a value.
RECURSIVE BoardFenFrom(_, _, _, _)
BoardFenFrom(b, was_promoted, i, empty) ==
    IF i = SquareCount THEN <<>>
    ELSE
      LET isquare == SQUARES_180[i]
          maybe_piece == piece_at(b, isquare)
          part1 ==
            IF ~has_value(maybe_piece) THEN <<>>
            ELSE (IF empty # 0 THEN to_string(empty) ELSE <<>>)
                 \o Piece_symbol(value(maybe_piece))
                 \o (IF has_value(was_promoted) /\ isquare \in b.promoted
                     THEN <<CharCode["~"]>> ELSE <<>>)
          empty1 == IF ~has_value(maybe_piece) THEN empty + 1 ELSE 0
          at_h == isquare \in BB_FILE_H
          part2 ==
            IF at_h
            THEN (IF empty1 # 0 THEN to_string(empty1) ELSE <<>>)
                 \o (IF isquare # H1 THEN <<CharCode["/"]>> ELSE <<>>)
            ELSE <<>>
          empty2 == IF at_h THEN 0 ELSE empty1
      IN  part1 \o part2 \o BoardFenFrom(b, was_promoted, i + 1, empty2)

board_fen(b, was_promoted) == BoardFenFrom(b, was_promoted, 0, 0)

\* the test that c is a piece letter: tolower(c) is looked up in
\* PIECE_SYMBOLS
IsPieceSymbol(c) == FindSymbol(<<tolower_char(c)>>) # 7

Digits == {CharCode[d] : d \in {"1", "2", "3", "4", "5", "6", "7", "8"}}

\* the validation of one row: TRUE when no exception is thrown
RECURSIVE ValidRowFrom(_, _, _, _)
ValidRowFrom(row, field_sum, previous_was_digit, previous_was_piece) ==
    IF row = <<>> THEN field_sum = 8
    ELSE LET c == Head(row) IN
      IF c \in Digits
      THEN /\ ~previous_was_digit
           /\ ValidRowFrom(Tail(row), field_sum + to_int(c), TRUE, FALSE)
      ELSE IF c = CharCode["~"]
      THEN /\ previous_was_piece
           /\ ValidRowFrom(Tail(row), field_sum, FALSE, FALSE)
      ELSE IF IsPieceSymbol(c)
      THEN ValidRowFrom(Tail(row), field_sum + 1, FALSE, TRUE)
      ELSE FALSE

\* the loop that puts the pieces on the board
RECURSIVE PlaceFen(_, _, _)
PlaceFen(b, fen, square_index) ==
    IF fen = <<>> THEN b
    ELSE LET c == Head(fen) IN
      IF c \in Digits
      THEN PlaceFen(b, Tail(fen), square_index + to_int(c))
      ELSE IF IsPieceSymbol(c)
      THEN LET piece == Piece_from_symbol(c) IN
           PlaceFen(_set_piece_at(b, SQUARES_180[square_index],
                                  piece.piece_type, piece.color, FALSE),
                    Tail(fen), square_index + 1)
      ELSE IF c = CharCode["~"]
      THEN PlaceFen([b EXCEPT !.promoted =
                        @ \cup BB_SQUARES[SQUARES_180[square_index - 1]]],
                    Tail(fen), square_index)
      ELSE PlaceFen(b, Tail(fen), square_index)

\* _set_board_fen: the board after the call, and the exception thrown if any
_set_board_fen(b, fen0) ==
    LET fen == strip(fen0)
        rows == split(fen, CharCode["/"])
        thrown == [board |-> b, ret |-> Some("invalid_argument")]
    IN  IF contains(fen, CharCode[" "]) THEN thrown
        ELSE IF Len(rows) # 8 THEN thrown
        ELSE IF \E i \in 1..8 : ~ValidRowFrom(rows[i], 0, FALSE, FALSE) THEN thrown
        ELSE [board |-> PlaceFen(_clear_board(b), fen, 0), ret |-> nullopt]

(***************************************************************************)
(* SpecFen: set_board_fen on a board, then board_fen                       *)
(***************************************************************************)
\* the rank-8 and rank-1 fields of the board-FENs passed to set_board_fen;
\* the six ranks between them are empty
RankStrings ==
    {<<"8">>, <<"4", "k", "3">>, <<"4", "K", "3">>,
     <<"r", "n", "b", "q", "k", "b", "n", "r">>,
     <<"R", "N", "B", "Q", "K", "B", "N", "R">>,
     <<"P", "7">>, <<"3", "q", "~", "4">>}

MiddleRanks ==
    <<"/", "8", "/", "8", "/", "8", "/", "8", "/", "8", "/", "8", "/">>

FenInputs == {Str(r8 \o MiddleRanks \o r1) : r8 \in RankStrings, r1 \in RankStrings}

InitFen ==
    /\ board \in {clear(BlankBoard), reset(BlankBoard), GamePosition(FALSE)}
    /\ call = <<"init">>
    /\ ret = nullopt

set_board_fen ==
    \E fen \in FenInputs :
        /\ call[1] = "init"
        /\ board' = _set_board_fen(board, fen).board
        /\ call' = <<"set_board_fen", fen>>
        /\ ret' = _set_board_fen(board, fen).ret

call_board_fen ==
    \E was_promoted \in {Some(FALSE), Some(TRUE)} :
        /\ call[1] = "set_board_fen"
        /\ call' = <<"board_fen", call[2], was_promoted>>
        /\ ret' = board_fen(board, was_promoted)
        /\ UNCHANGED board

NextFen == set_board_fen \/ call_board_fen

SpecFen == InitFen /\ [][NextFen]_vars

(***************************************************************************)
(* C4: for a valid board-FEN s in canonical form (8 ranks, rank 8 first,   *)
(* digits for runs of empty squares, PNBRQK for White and pnbrqk for       *)
(* Black), set_board_fen(s) is accepted and board_fen() called after it    *)
(* returns s: the same pieces with the same letter case on the same        *)
(* squares, 8 ranks and exactly 7 '/' separators.  The inputs without '~'  *)
(* are the ones the claim speaks of.                                       *)
(***************************************************************************)
CountChar(s, c) == Cardinality({i \in DOMAIN s : s[i] = c})

C4_FenRoundTrip ==
    (call[1] = "board_fen" /\ ~contains(call[2], CharCode["~"])) =>
        /\ ret = call[2]
        /\ CountChar(ret, CharCode["/"]) = 7

(***************************************************************************)
(* Repetition.  _transposition_key and is_irreversible are called by the   *)
(* source but defined in no file of it; they follow the specification.     *)
(***************************************************************************)
has_legal_en_passant(b) ==
    \E m \in generate_pseudo_legal_ep(b, BB_ALL, BB_ALL) : leaves_king_safe(b, m)

\* (all piece bitboards, side to move, effective castling rights, effective
\* en passant square)
_transposition_key(b) ==
    <<b.pawns, b.knights, b.bishops, b.rooks, b.queens, b.kings,
      b.occupied_co[WHITE], b.occupied_co[BLACK], b.turn,
      clean_castling_rights(b),
      IF has_legal_en_passant(b) THEN b.ep_square ELSE nullopt>>

\* capture, pawn move, castling rights change, or en passant change
is_irreversible(b, m) ==
    \/ is_zeroing(b, m)
    \/ clean_castling_rights(push(b, m)) # clean_castling_rights(b)
    \/ has_legal_en_passant(b)

\* hscnt::HashCounter: a map from keys to int
HashCounter == [k \in {} |-> 0]

\* add that counts the first occurrence of a key as 1
HashCounter_add_from_one(hash_map, key) ==
    IF key \in DOMAIN hash_map THEN [hash_map EXCEPT ![key] = @ + 1]
    ELSE hash_map @@ (key :> 1)

\* HashCounter::add: a key that is not in the map is entered with 0
HashCounter_add(hash_map, key) ==
    IF key \in DOMAIN hash_map THEN [hash_map EXCEPT ![key] = @ + 1]
    ELSE hash_map @@ (key :> 0)

HashCounter_count(hash_map, key) ==
    IF key \in DOMAIN hash_map THEN hash_map[key] ELSE 0

\* a variant that leaves the moves taken back off the board
Repush_dropped(b, switchyard) == b

\* while (!switchyard.empty()) push(switchyard.back())
RECURSIVE Repush(_, _)
Repush(b, switchyard) ==
    IF switchyard = <<>> THEN b
    ELSE Repush(push(b, switchyard[Len(switchyard)]),
                SubSeq(switchyard, 1, Len(switchyard) - 1))

\* the counting loop of can_claim_threefold_repetition: the board it stops
\* on, the moves taken back and the counter
RECURSIVE CountPositions(_, _, _)
CountPositions(b, switchyard, transpositions) ==
    IF b.move_stack = <<>>
    THEN [board |-> b, switchyard |-> switchyard, transpositions |-> transpositions]
    ELSE LET r == pop(b)
             sy == Append(switchyard, r.ret)
         IN  IF is_irreversible(r.board, r.ret)
             THEN [board |-> r.board, switchyard |-> sy,
                   transpositions |-> transpositions]
             ELSE CountPositions(r.board, sy,
                     HashCounter_add(transpositions, _transposition_key(r.board)))

\* the body of the legal-move loop of can_claim_threefold_repetition after
\* push(move): the key is counted, then the move is popped
ClaimAfterPush(pushed, transpositions) ==
    [board |-> pop(pushed).board,
     ret |-> HashCounter_count(transpositions, _transposition_key(pushed)) >= 2]

\* the legal-move loop over the moves not yet tried; r is the outcome of
\* the move just tried
RECURSIVE ClaimNext(_, _, _)
ClaimNext(r, moves, transpositions) ==
    IF r.ret THEN r
    ELSE IF moves = {} THEN [board |-> r.board, ret |-> FALSE]
    ELSE ClaimNext(ClaimAfterPush(push(r.board, CHOOSE m \in moves : TRUE),
                                  transpositions),
                   moves \ {CHOOSE m \in moves : TRUE}, transpositions)

\* the two tests of can_claim_threefold_repetition on the board with the
\* moves pushed again
ClaimTests(b, transpositions, transposition_key) ==
    IF HashCounter_count(transpositions, transposition_key) >= 3
    THEN [board |-> b, ret |-> TRUE]
    ELSE ClaimNext([board |-> b, ret |-> FALSE], generate_legal_moves(b),
                   transpositions)

ClaimAfterCount(c, transposition_key) ==
    ClaimTests(Repush(c.board, c.switchyard), c.transpositions, transposition_key)

ClaimWithKey(b, transposition_key) ==
    ClaimAfterCount(CountPositions(b, <<>>,
                        HashCounter_add(HashCounter, transposition_key)),
                    transposition_key)

can_claim_threefold_repetition(b) == ClaimWithKey(b, _transposition_key(b))

\* a pre-scan that does not count the current position
MaybeRepetitions_without_current(b) ==
    Cardinality({i \in DOMAIN b._stack : b._stack[i].occupied = b.occupied})

\* the fast check of is_repetition: the current position and the snapshots
\* of _stack with the same occupied mask
MaybeRepetitions(b) ==
    1 + Cardinality({i \in DOMAIN b._stack : b._stack[i].occupied = b.occupied})

\* the full replay of is_repetition
RECURSIVE RepetitionReplay(_, _, _, _)
RepetitionReplay(b, transposition_key, count, switchyard) ==
    IF count <= 1 THEN [board |-> Repush(b, switchyard), ret |-> TRUE]
    ELSE IF Len(b.move_stack) < count - 1
    THEN [board |-> Repush(b, switchyard), ret |-> FALSE]
    ELSE LET r == pop(b)
             sy == Append(switchyard, r.ret)
         IN  IF is_irreversible(r.board, r.ret)
             THEN [board |-> Repush(r.board, sy), ret |-> FALSE]
             ELSE RepetitionReplay(r.board, transposition_key,
                      IF _transposition_key(r.board) = transposition_key
                      THEN count - 1 ELSE count,
                      sy)

is_repetition(b, count) ==
    IF MaybeRepetitions(b) < count THEN [board |-> b, ret |-> FALSE]
    ELSE RepetitionReplay(b, _transposition_key(b), count, <<>>)

is_fivefold_repetition(b) == is_repetition(b, 5)

(***************************************************************************)
(* SpecRep: knights and a rook going back and forth from the standard      *)
(* start, with the repetition queries                                      *)
(***************************************************************************)
\* the deepest move stack the model explores: sixteen plies repeat the
\* starting position for the fifth time
MaxRepPly == 16

SQ_F3 == 21
SQ_F6 == 45

RepMoves ==
    {Move(SQ_G1, SQ_F3, nullopt), Move(SQ_F3, SQ_G1, nullopt),
     Move(SQ_G8, SQ_F6, nullopt), Move(SQ_F6, SQ_G8, nullopt),
     Move(SQ_H1, SQ_G1, nullopt), Move(SQ_G1, SQ_H1, nullopt)}

is_legal_move(b, m) ==
    m \in generate_legal_moves_masked(b, BB_SQUARES[m.from_square],
                                      BB_SQUARES[m.to_square])

InitRep ==
    /\ board = reset(BlankBoard)
    /\ call = <<"init">>
    /\ ret = nullopt

play_move ==
    \E m \in RepMoves :
        /\ Len(board.move_stack) < MaxRepPly
        /\ is_legal_move(board, m)
        /\ board' = push(board, m)
        /\ call' = <<"push", m>>
        /\ ret' = nullopt

call_is_repetition ==
    \E count \in {3, 5} :
        /\ call[1] = "push"
        /\ board' = is_repetition(board, count).board
        /\ call' = <<"is_repetition", count>>
        /\ ret' = is_repetition(board, count).ret

call_can_claim_threefold_repetition ==
    /\ call[1] = "push"
    /\ board' = can_claim_threefold_repetition(board).board
    /\ call' = <<"can_claim_threefold_repetition">>
    /\ ret' = can_claim_threefold_repetition(board).ret

NextRep == play_move \/ call_is_repetition \/ call_can_claim_threefold_repetition

SpecRep == InitRep /\ [][NextRep]_vars

\* the position the game was in before its i-th move, from the snapshot
PositionAt(b, i) ==
    restore(b._stack[i], [b EXCEPT !.move_stack = SubSeq(@, 1, i - 1),
                                   !._stack = SubSeq(@, 1, i - 1)])

\* the number of positions of the game so far, the current one included,
\* that have the transposition key of the current position
Occurrences(b) ==
    1 + Cardinality({i \in DOMAIN b._stack :
            _transposition_key(PositionAt(b, i)) = _transposition_key(b)})

(***************************************************************************)
(* C8: can_claim_threefold_repetition() returns true whenever the current  *)
(* transposition key has occurred at least 3 times in the game so far,     *)
(* the current position included, or some legal move leads to a position   *)
(* whose key has already occurred at least 2 times; in particular after    *)
(* Nf3 Nf6 Ng1 Ng8 Nf3 Nf6 Ng1 Ng8 from the starting position.             *)
(***************************************************************************)
ClaimIsDue(b) ==
    \/ Occurrences(b) >= 3
    \/ \E move \in generate_legal_moves(b) : Occurrences(push(b, move)) - 1 >= 2

C8_CanClaimThreefold ==
    (call[1] = "can_claim_threefold_repetition" /\ ClaimIsDue(board)) => ret = TRUE

(***************************************************************************)
(* C9: for count in {3, 5}, is_repetition(count) returns true iff the      *)
(* current transposition key has occurred at least count times among the   *)
(* positions of the game so far, the current one included; the pre-scan of *)
(* _stack by occupied and the stop at the last irreversible move never     *)
(* turn a true answer into false.                                          *)
(***************************************************************************)
C9_IsRepetitionIff ==
    \A count \in {3, 5} :
        is_repetition(board, count).ret <=> (Occurrences(board) >= count)

\* is_repetition(5) has answered true after sixteen plies of knight moves
C9_Witness ==
    /\ call = <<"is_repetition", 5>>
    /\ ret = TRUE
    /\ Len(board.move_stack) = 16
    /\ Occurrences(board) = 5

(***************************************************************************)
(* Legality.  is_pseudo_legal, is_into_check and is_legal are in the       *)
(* source; _generate_evasions, _slider_blockers and _is_safe are called by *)
(* it but defined in no file of it and follow the specification.  They     *)
(* take the king square from their caller.                                 *)
(***************************************************************************)
\* Move::__bool__
Move_bool(m) ==
    m.from_square # 0 \/ m.to_square # 0 \/ has_value(m.promotion) \/ has_value(m.drop)

\* is_pseudo_legal.  The turn test `!occupied_co[turn] & from_mask` negates
\* the mask first: it is the low bit of from_mask when the mask is empty.
is_pseudo_legal(b, m) ==
    LET piece == piece_type_at(b, m.from_square)
        from_mask == BB_SQUARES[m.from_square]
        to_mask == BB_SQUARES[m.to_square]
    IN  IF ~Move_bool(m) THEN FALSE
        ELSE IF has_value(m.drop) THEN FALSE
        ELSE IF ~has_value(piece) THEN FALSE
        ELSE IF b.occupied_co[b.turn] = BB_EMPTY /\ 0 \in from_mask THEN FALSE
        ELSE IF has_value(m.promotion) /\ piece # Some(PAWN) THEN FALSE
        ELSE IF has_value(m.promotion) /\ b.turn = WHITE
                /\ square_rank(m.to_square) # 7 THEN FALSE
        ELSE IF has_value(m.promotion) /\ b.turn = BLACK
                /\ square_rank(m.to_square) # 0 THEN FALSE
        ELSE IF piece = Some(KING)
                /\ m \in generate_castling_moves(b, BB_ALL, BB_ALL) THEN TRUE
        ELSE IF b.occupied_co[b.turn] \cap to_mask # BB_EMPTY THEN FALSE
        ELSE IF piece = Some(PAWN)
        THEN m \in generate_pseudo_legal_moves(b, from_mask, to_mask)
        ELSE attacks_mask(b, m.from_square) \cap to_mask # BB_EMPTY

\* the evasions of a check on king_sq by checkers: king moves off the rays
\* of the checking sliders, and for a single checker its capture and the
\* blocks of its ray
_generate_evasions(b, king_sq, checkers, from_mask, to_mask) ==
    LET sliders == checkers \cap (b.bishops \cup b.rooks \cup b.queens)
        attacked == UNION {ray(king_sq, c) \ {c} : c \in sliders}
        king_moves ==
            IF king_sq \in from_mask
            THEN {Move(king_sq, t, nullopt) :
                    t \in ((BB_KING_ATTACKS[king_sq] \ b.occupied_co[b.turn])
                           \ attacked) \cap to_mask}
            ELSE {}
        last_double ==
            IF has_value(b.ep_square)
            THEN {value(b.ep_square) + (IF b.turn = WHITE THEN -8 ELSE 8)}
            ELSE {}
    IN  IF Cardinality(checkers) # 1 THEN king_moves
        ELSE king_moves
             \cup generate_pseudo_legal_moves(b, from_mask \ b.kings,
                      (UNION {between(king_sq, c) : c \in checkers}
                       \cup checkers) \cap to_mask)
             \cup (IF last_double = checkers
                   THEN generate_pseudo_legal_ep(b, from_mask, to_mask)
                   ELSE {})

\* the pieces of the side to move that stand alone between king_sq and a
\* slider of the opponent
_slider_blockers(b, king_sq) ==
    LET snipers ==
            ((BB_RANK_ATTACKS(king_sq, BB_EMPTY) \cup BB_FILE_ATTACKS(king_sq, BB_EMPTY))
                \cap (b.rooks \cup b.queens))
            \cup (BB_DIAG_ATTACKS(king_sq, BB_EMPTY) \cap (b.bishops \cup b.queens))
    IN  UNION {between(king_sq, s) \cap b.occupied :
                 s \in {t \in snipers \cap b.occupied_co[NotColor(b.turn)] :
                          Cardinality(between(king_sq, t) \cap b.occupied) = 1}}
        \cap b.occupied_co[b.turn]

\* the move does not expose king_sq: a king move must reach a square that
\* is not attacked, an en passant capture must not uncover an attack, and a
\* blocker must stay on the ray of the king
_is_safe(b, king_sq, blockers, m) ==
    IF m.from_square = king_sq
    THEN \/ is_castling(b, m)
         \/ attackers_mask(b, NotColor(b.turn), m.to_square) = BB_EMPTY
    ELSE IF is_en_passant(b, m)
    THEN attackers_mask(push(b, m), NotColor(b.turn), king_sq) = BB_EMPTY
    ELSE \/ m.from_square \notin blockers
         \/ king_sq \in ray(m.from_square, m.to_square)

\* is_into_check with the king square king() has reported
IsIntoCheckAt(b, king_sq, checkers_bb, m) ==
    IF checkers_bb # BB_EMPTY
       /\ m \in _generate_evasions(b, king_sq, checkers_bb,
                    BB_SQUARES[m.from_square], BB_SQUARES[m.to_square])
    THEN TRUE
    ELSE ~_is_safe(b, king_sq, _slider_blockers(b, king_sq), m)

IsIntoCheckWithKing(b, king_sq, m) ==
    IsIntoCheckAt(b, king_sq, attackers_mask(b, NotColor(b.turn), king_sq), m)

is_into_check(b, m) ==
    IF ~has_value(king(b, b.turn)) THEN FALSE
    ELSE IsIntoCheckWithKing(b, value(king(b, b.turn)), m)

is_variant_end(b) == FALSE

is_legal(b, m) ==
    ~is_variant_end(b) /\ is_pseudo_legal(b, m) /\ ~is_into_check(b, m)

(***************************************************************************)
(* SpecLegal: is_legal on positions with a white king, a white bishop, a   *)
(* black rook and a black king, White to move                              *)
(***************************************************************************)
SQ_A2 == 8
SQ_B2 == 9
SQ_D2 == 11
SQ_H3 == 23
SQ_A5 == 32
SQ_D5 == 35
SQ_E5 == 36
SQ_G6 == 46

LegalPosition(wk, wb, br, bk) ==
    PlaceAll(clear(BlankBoard),
        << <<wk, KING, WHITE>>, <<wb, BISHOP, WHITE>>,
           <<br, ROOK, BLACK>>, <<bk, KING, BLACK>> >>)

LegalPositions ==
    {LegalPosition(wk, wb, br, bk) :
        wk \in {SQ_A1, SQ_E1}, wb \in {SQ_E4, SQ_D4},
        br \in {SQ_A8, SQ_A5, SQ_H1, SQ_E8}, bk \in {SQ_G6, SQ_H3}}

\* king moves, captures of the rook, blocks of its file and quiet bishop
\* moves
LegalMoves ==
    {Move(SQ_A1, SQ_A2, nullopt), Move(SQ_A1, SQ_B1, nullopt),
     Move(SQ_A1, SQ_B2, nullopt), Move(SQ_E1, SQ_E2, nullopt),
     Move(SQ_E1, SQ_D1, nullopt), Move(SQ_E1, SQ_D2, nullopt),
     Move(SQ_E4, SQ_A8, nullopt), Move(SQ_E4, SQ_H1, nullopt),
     Move(SQ_E4, SQ_E8, nullopt), Move(SQ_E4, SQ_D5, nullopt),
     Move(SQ_D4, SQ_A7, nullopt), Move(SQ_D4, SQ_E5, nullopt),
     Move(SQ_D4, SQ_E3, nullopt), Move(SQ_E4, SQ_D3, nullopt)}

InitLegal ==
    /\ board \in LegalPositions
    /\ call = <<"init">>
    /\ ret = nullopt

call_is_legal ==
    \E m \in LegalMoves :
        /\ call' = <<"is_legal", m>>
        /\ ret' = is_legal(board, m)
        /\ UNCHANGED board

NextLegal == call_is_legal

SpecLegal == InitLegal /\ [][NextLegal]_vars

(***************************************************************************)
(* C10: when the king of the side to move is in check, is_legal(m) holds   *)
(* for a pseudo-legal move m exactly when m is an evasion (a king move to  *)
(* a square that is not attacked, a capture of the single checker, or a    *)
(* block of the single checking slider's ray) that does not leave the king *)
(* attacked.                                                               *)
(***************************************************************************)
C10_LegalIffEvasion ==
    (/\ call[1] = "is_legal"
     /\ spec_is_check(board)
     /\ is_pseudo_legal_move(board, call[2]))
    => (ret <=> is_legal_move(board, call[2]))

(***************************************************************************)
(* sqgen::SquareIterator: the iterator holds the bitboard of the squares   *)
(* still to come                                                           *)
(***************************************************************************)
Forward == TRUE
Reverse == FALSE

\* operator*: __builtin_ctzll(bb), or 63 - __builtin_clzll(bb); undefined
\* for an empty bitboard
SquareIterator_deref(bb, Direction) ==
    IF Direction = Forward THEN lsb(bb) ELSE (SquareCount - 1) - msb(bb)

\* a faulty operator++ that clears the lowest bit in both directions
SquareIterator_increment_lowest(bb, Direction) == bb \ {lsb(bb)}

\* operator++: bb &= bb - 1, or bb ^= BB_SQUARES[63 - __builtin_clzll(bb)]
SquareIterator_increment(bb, Direction) ==
    IF Direction = Forward
    THEN bb \ {lsb(bb)}
    ELSE Xor(bb, {(SquareCount - 1) - msb(bb)})

(***************************************************************************)
(* Board::CastleIterator.  The iterator is run from construction to the    *)
(* sentinel and the moves it yields are collected in order.                *)
(* clean_castling_rights, _attacked_for_king and _from_chess960 are called *)
(* by it but defined in no file of the source.                             *)
(***************************************************************************)
SQ_H8 == 63

\* chess960: king to rook square; otherwise king to its final square on the
\* c-file or g-file of its rank
_from_chess960(chess960, from_square, to_square) ==
    IF chess960 THEN Move(from_square, to_square, nullopt)
    ELSE Move(from_square,
              (from_square - square_file(from_square))
                  + (IF to_square < from_square THEN 2 ELSE 6),
              nullopt)

\* is_yield_legal on the fields the run-up has set
CastleIterator_is_yield_legal(b, king_bb, rook, king_path, rook_path, king_to, rook_to) ==
    ~(\/ Xor(Xor(b.occupied, king_bb), rook)
            \cap (king_path \cup rook_path \cup king_to \cup rook_to) # BB_EMPTY
      \/ _attacked_for_king(b, king_path \cup king_bb, Xor(b.occupied, king_bb))
      \/ _attacked_for_king(b, king_to,
             Xor(Xor(Xor(b.occupied, king_bb), rook), rook_to)))

\* the run-up for one candidate: rook, side, king_to, rook_to and the two
\* paths, the king square and the target squares being taken with msb()
CastleIterator_candidate_legal(b, king_bb, candidate, backrank) ==
    LET rook == {candidate}
        a_side == candidate < lsb(king_bb)
        king_to == (IF a_side THEN BB_FILE_C ELSE BB_FILE_G) \cap backrank
        rook_to == (IF a_side THEN BB_FILE_D ELSE BB_FILE_F) \cap backrank
        king_path == between(msb(king_bb), msb(king_to))
        rook_path == between(candidate, msb(rook_to))
    IN  CastleIterator_is_yield_legal(b, king_bb, rook, king_path, rook_path,
                                      king_to, rook_to)

\* operator*: the move is built from msb(king) and the candidate
CastleIterator_deref(b, king_bb, candidates) ==
    _from_chess960(b.chess960, msb(king_bb),
                   SquareIterator_deref(candidates, Reverse))

\* the candidates are visited from the highest square down; the run-up on
\* the exhausted iterator reads an undefined square, after which the loop
\* ends on stop_iteration() whatever is_yield_legal() gave
RECURSIVE CastleIterator_run(_, _, _, _)
CastleIterator_run(b, king_bb, candidates, backrank) ==
    IF candidates = BB_EMPTY THEN <<>>
    ELSE (IF CastleIterator_candidate_legal(b, king_bb,
                 SquareIterator_deref(candidates, Reverse), backrank)
          THEN <<CastleIterator_deref(b, king_bb, candidates)>>
          ELSE <<>>)
         \o CastleIterator_run(b, king_bb,
                SquareIterator_increment(candidates, Reverse), backrank)

CastleIterator(b, from_mask, to_mask) ==
    LET backrank == IF b.turn = WHITE THEN BB_RANK_1 ELSE BB_RANK_8
        kings == ((b.occupied_co[b.turn] \cap b.kings) \ b.promoted)
                     \cap backrank \cap from_mask
    IN  IF is_variant_end(b) \/ kings = BB_EMPTY THEN <<>>
        ELSE CastleIterator_run(b, {lsb(kings)},
                 clean_castling_rights(b) \cap backrank \cap to_mask, backrank)

(***************************************************************************)
(* SpecCastle: the castling generator on r3k2r/8/8/8/8/8/8/R3K2R with      *)
(* either side to move, any subset of the four castling rights and an      *)
(* optional extra rook                                                     *)
(***************************************************************************)
SQ_F2 == 13

CastleExtras ==
    {<<>>, <<SQ_D8, ROOK, BLACK>>, <<SQ_F8, ROOK, BLACK>>,
     <<SQ_D1, ROOK, WHITE>>, <<SQ_F2, ROOK, WHITE>>}

CastlePosition(turn, rights, extra, chess960) ==
    LET placed == PlaceAll(clear(BlankBoard),
            << <<SQ_E1, KING, WHITE>>, <<SQ_A1, ROOK, WHITE>>,
               <<SQ_H1, ROOK, WHITE>>, <<SQ_E8, KING, BLACK>>,
               <<SQ_A8, ROOK, BLACK>>, <<SQ_H8, ROOK, BLACK>> >>
            \o (IF extra = <<>> THEN <<>> ELSE <<extra>>))
    IN  [placed EXCEPT !.turn = turn, !.castling_rights = rights,
                       !.chess960 = chess960]

CastleMasks == {BB_ALL, BB_RANK_1, BB_FILE_H \cup BB_FILE_E}

InitCastle ==
    /\ board \in {CastlePosition(t, r, x, c) :
                    t \in Colors, r \in SUBSET {SQ_A1, SQ_H1, SQ_A8, SQ_H8},
                    x \in CastleExtras, c \in BOOLEAN}
    /\ call = <<"init">>
    /\ ret = nullopt

call_generate_castling_moves ==
    \E from_mask \in CastleMasks, to_mask \in CastleMasks :
        /\ call' = <<"generate_castling_moves", from_mask, to_mask>>
        /\ ret' = CastleIterator(board, from_mask, to_mask)
        /\ UNCHANGED board

NextCastle == call_generate_castling_moves

SpecCastle == InitCastle /\ [][NextCastle]_vars

\* the three conditions of castling with the rook on rook_sq, for the king
\* on king_sq
CastlingAllowed(b, king_sq, rook_sq) ==
    LET base == king_sq - square_file(king_sq)
        a_side == rook_sq < king_sq
        king_to == base + (IF a_side THEN 2 ELSE 6)
        rook_to == base + (IF a_side THEN 3 ELSE 5)
        king_path == between(king_sq, king_to)
        rook_path == between(rook_sq, rook_to)
    IN  /\ (b.occupied \ {king_sq, rook_sq})
               \cap (king_path \cup rook_path \cup {king_to, rook_to}) = BB_EMPTY
        /\ ~_attacked_for_king(b, king_path \cup {king_sq},
                               b.occupied \ {king_sq})
        /\ ~_attacked_for_king(b, {king_to},
               ((b.occupied \ {king_sq}) \ {rook_sq}) \cup {rook_to})

SeqRange(s) == {s[i] : i \in 1..Len(s)}

(***************************************************************************)
(* C11: for the mover's king on its back rank and each rook of the clean   *)
(* castling rights on that rank, the castling generator (called with the   *)
(* full masks) yields the castling move with that rook exactly when no     *)
(* other piece stands on the king's path, the rook's path or their target  *)
(* squares, no square of the king's path or the king's square is attacked  *)
(* with the king lifted, and the king's target is not attacked with the    *)
(* king lifted and the rook on its target.                                 *)
(***************************************************************************)
C11_CastlingIff ==
    (/\ call[1] = "generate_castling_moves"
     /\ call[2] = BB_ALL
     /\ call[3] = BB_ALL)
    => LET backrank == IF board.turn = WHITE THEN BB_RANK_1 ELSE BB_RANK_8
           king_sq == IF board.turn = WHITE THEN SQ_E1 ELSE SQ_E8
       IN  \A rook_sq \in clean_castling_rights(board) \cap backrank :
              (_from_chess960(board.chess960, king_sq, rook_sq) \in SeqRange(ret))
              <=> CastlingAllowed(board, king_sq, rook_sq)

(***************************************************************************)
(* Board::EPIterator.  The iterator is run from construction to the        *)
(* sentinel and the moves it yields are collected in order.                *)
(***************************************************************************)
\* `!BB_SQUARES[ep] & to_mask`: the negation applies to BB_SQUARES[ep], a
\* non-zero bitboard, before the mask is taken
EPIterator_not_in_to_mask(ep, to_mask) ==
    (IF {ep} # BB_EMPTY THEN BB_EMPTY ELSE {0}) \cap to_mask # BB_EMPTY

\* capturers: BB_PAWN_ATTACKS[!turn][ep_square] & BB_RANKS[turn ? 4 : 3]
EPIterator_capturers(b, from_mask) ==
    b.pawns \cap b.occupied_co[b.turn] \cap from_mask
    \cap BB_PAWN_ATTACKS[NotColor(b.turn)][value(b.ep_square)]
    \cap BB_RANKS[IF b.turn # 0 THEN 4 ELSE 3]

\* operator* and operator++ until the capturers are used up
RECURSIVE EPIterator_run(_, _)
EPIterator_run(b, capturer) ==
    IF capturer = BB_EMPTY THEN <<>>
    ELSE <<Move(SquareIterator_deref(capturer, Reverse),
                value(b.ep_square), nullopt)>>
         \o EPIterator_run(b, SquareIterator_increment(capturer, Reverse))

EPIterator(b, from_mask, to_mask) ==
    IF ~has_value(b.ep_square)
       \/ EPIterator_not_in_to_mask(value(b.ep_square), to_mask)
    THEN <<>>
    ELSE IF value(b.ep_square) \in b.occupied THEN <<>>
    ELSE EPIterator_run(b, EPIterator_capturers(b, from_mask))

(***************************************************************************)
(* SpecEP: the en-passant generator after a double step of the e-pawn,     *)
(* with the mover's pawns beside it, on the wrong rank, or absent          *)
(***************************************************************************)
SQ_F4 == 29
SQ_F5 == 37
SQ_E6 == 44

\* the pawn that has just moved, the en-passant square behind it and the
\* squares the mover's pawns may stand on
EPPosition(turn, own, ep_square, blocker) ==
    LET them == NotColor(turn)
        moved == IF turn = WHITE THEN SQ_E5 ELSE SQ_E4
        kings == << <<SQ_E1, KING, WHITE>>, <<SQ_E8, KING, BLACK>>,
                    <<moved, PAWN, them>> >>
        pawns == [i \in 1..Len(own) |-> <<own[i], PAWN, turn>>]
        placed == PlaceAll(clear(BlankBoard), kings \o pawns \o blocker)
    IN  [placed EXCEPT !.turn = turn, !.ep_square = ep_square]

EPOwnPawns(turn) ==
    IF turn = WHITE
    THEN {<<>>, <<SQ_D5>>, <<SQ_F5>>, <<SQ_D5, SQ_F5>>, <<SQ_D4>>,
          <<SQ_D4, SQ_F5>>, <<SQ_D7, SQ_F5>>, <<SQ_A5, SQ_D5>>}
    ELSE {<<>>, <<SQ_D4>>, <<SQ_F4>>, <<SQ_D4, SQ_F4>>, <<SQ_D5>>,
          <<SQ_D5, SQ_F4>>, <<SQ_D2, SQ_F4>>, <<SQ_H3, SQ_D4>>}

EPSquareOf(turn) == IF turn = WHITE THEN SQ_E6 ELSE SQ_E3

EPPositions ==
    UNION {{EPPosition(turn, own, ep, blocker) :
               own \in EPOwnPawns(turn),
               ep \in {nullopt, Some(EPSquareOf(turn))},
               blocker \in {<<>>, << <<EPSquareOf(turn), KNIGHT, BLACK>> >>}} :
           turn \in Colors}

EPMasks == {BB_ALL, BB_FILE_D, BB_FILE_E, BB_RANK_1}

InitEP ==
    /\ board \in EPPositions
    /\ call = <<"init">>
    /\ ret = nullopt

call_generate_pseudo_legal_ep ==
    \E from_mask \in EPMasks, to_mask \in EPMasks :
        /\ call' = <<"generate_pseudo_legal_ep", from_mask, to_mask>>
        /\ ret' = EPIterator(board, from_mask, to_mask)
        /\ UNCHANGED board

NextEP == call_generate_pseudo_legal_ep

SpecEP == InitEP /\ [][NextEP]_vars

\* the pawns of the side to move that may capture en passant
EPCapturers(b, from_mask) ==
    {p \in b.pawns \cap b.occupied_co[b.turn] \cap from_mask :
        /\ value(b.ep_square) \in pawn_attacks(b.turn, p)
        /\ square_rank(p) = (IF b.turn = WHITE THEN 4 ELSE 3)}

(***************************************************************************)
(* C12: the en-passant generator called with from_mask and to_mask yields  *)
(* exactly one move, pawn square to ep_square, for each pawn of the side   *)
(* to move that lies in from_mask, attacks ep_square and stands on the     *)
(* capturing rank, provided ep_square is set, unoccupied and in to_mask;   *)
(* otherwise it yields nothing.                                            *)
(***************************************************************************)
C12_EnPassantExactly ==
    call[1] = "generate_pseudo_legal_ep"
    => IF /\ has_value(board.ep_square)
          /\ value(board.ep_square) \notin board.occupied
          /\ value(board.ep_square) \in call[3]
       THEN /\ SeqRange(ret) = {Move(p, value(board.ep_square), nullopt) :
                                  p \in EPCapturers(board, call[2])}
            /\ Len(ret) = Cardinality(EPCapturers(board, call[2]))
       ELSE ret = <<>>

(***************************************************************************)
(* C13: on a board with at most one unpromoted king per colour,            *)
(* king(colour) returns the square that holds that colour's unpromoted     *)
(* king, and returns absent exactly when there is none.                    *)
(***************************************************************************)
C13_KingSquare ==
    \A color \in Colors :
        LET king_mask == (board.occupied_co[color] \cap board.kings)
                             \ board.promoted
        IN  Cardinality(king_mask) <= 1
            => king(board, color) =
                  (IF king_mask = BB_EMPTY THEN nullopt
                   ELSE Some(CHOOSE s \in king_mask : TRUE))

(***************************************************************************)
(* C14: for every colour c and squares s, t, s is in attackers_mask(c, t)  *)
(* exactly when s holds a piece of colour c and t is in attacks_mask(s),   *)
(* for every piece type, pawns of either colour included.                  *)
(***************************************************************************)
C14_AttackersSymmetry ==
    \A c \in Colors : \A t \in AllSquares : \A s \in AllSquares :
        (s \in attackers_mask(board, c, t))
        <=> (color_at(board, s) = Some(c) /\ t \in attacks_mask(board, s))

(***************************************************************************)
(* BaseBoard::pin_mask                                                     *)
(***************************************************************************)
\* scan_reversed(snipers): the first sniper, from the highest square down,
\* with nothing but the square between it and the king
RECURSIVE pin_mask_snipers(_, _, _, _)
pin_mask_snipers(b, king_square, square_mask, snipers) ==
    IF snipers = BB_EMPTY THEN BB_ALL
    ELSE LET sniper == SquareIterator_deref(snipers, Reverse) IN
         IF between(sniper, king_square) \cap (b.occupied \cup square_mask)
                = square_mask
         THEN ray(king_square, sniper)
         ELSE pin_mask_snipers(b, king_square, square_mask,
                               SquareIterator_increment(snipers, Reverse))

\* the loop over (BB_FILE_ATTACKS, rooks | queens), (BB_RANK_ATTACKS, rooks |
\* queens), (BB_DIAG_ATTACKS, bishops | queens): the first family whose rays
\* from the king hold the square decides
pin_mask_from(b, color, square_mask, king_square) ==
    LET file_rays == BB_FILE_ATTACKS(king_square, BB_EMPTY)
        rank_rays == BB_RANK_ATTACKS(king_square, BB_EMPTY)
        diag_rays == BB_DIAG_ATTACKS(king_square, BB_EMPTY)
        them == b.occupied_co[NotColor(color)]
    IN  IF file_rays \cap square_mask # BB_EMPTY
        THEN pin_mask_snipers(b, king_square, square_mask,
                 file_rays \cap (b.rooks \cup b.queens) \cap them)
        ELSE IF rank_rays \cap square_mask # BB_EMPTY
        THEN pin_mask_snipers(b, king_square, square_mask,
                 rank_rays \cap (b.rooks \cup b.queens) \cap them)
        ELSE IF diag_rays \cap square_mask # BB_EMPTY
        THEN pin_mask_snipers(b, king_square, square_mask,
                 diag_rays \cap (b.bishops \cup b.queens) \cap them)
        ELSE BB_ALL

pin_mask(b, color, square) ==
    IF ~has_value(king(b, color)) THEN BB_ALL
    ELSE pin_mask_from(b, color, BB_SQUARES[square], value(king(b, color)))

(***************************************************************************)
(* SpecPin: pin_mask on positions with a white king, a white knight, a     *)
(* black slider and a black king                                           *)
(***************************************************************************)
SQ_C3 == 18
SQ_H4 == 31
SQ_D6 == 43

PinPosition(wk, wn, slider, sq, bk) ==
    PlaceAll(clear(BlankBoard),
        << <<wk, KING, WHITE>>, <<wn, KNIGHT, WHITE>>,
           <<sq, slider, BLACK>>, <<bk, KING, BLACK>> >>)

PinPositions ==
    {PinPosition(wk, wn, slider, sq, bk) :
        wk \in {SQ_E1, SQ_A1}, wn \in {SQ_E2, SQ_D2, SQ_B2, SQ_D4},
        slider \in {ROOK, BISHOP, QUEEN},
        sq \in {SQ_E8, SQ_E3, SQ_H4, SQ_C3, SQ_D1, SQ_A5},
        bk \in {SQ_G6, SQ_D6}}

PinSquares == {SQ_E2, SQ_D2, SQ_B2, SQ_D4, SQ_F2, SQ_D7}

InitPin ==
    /\ board \in PinPositions
    /\ call = <<"init">>
    /\ ret = nullopt

call_pin_mask ==
    \E color \in Colors, square \in PinSquares :
        /\ call' = <<"pin_mask", color, square>>
        /\ ret' = pin_mask(board, color, square)
        /\ UNCHANGED board

NextPin == call_pin_mask

SpecPin == InitPin /\ [][NextPin]_vars

\* the enemy sliders that pin the square to the king on king_sq
Pinners(b, color, square, king_sq) ==
    LET lines(kind_rays, sliders) ==
            IF square \in kind_rays
            THEN kind_rays \cap sliders \cap b.occupied_co[NotColor(color)]
            ELSE BB_EMPTY
        candidates ==
            lines(_sliding_attacks(king_sq, BB_EMPTY, _FILE), b.rooks \cup b.queens)
            \cup lines(_sliding_attacks(king_sq, BB_EMPTY, _RANK),
                       b.rooks \cup b.queens)
            \cup lines(_sliding_attacks(king_sq, BB_EMPTY, _DIAG),
                       b.bishops \cup b.queens)
    IN  {slider \in candidates :
            between(king_sq, slider) \cap (b.occupied \cup {square}) = {square}}

(***************************************************************************)
(* C15: pin_mask(colour, sq) differs from all-ones exactly when the king   *)
(* of the colour exists, sq lies on a rank, file or diagonal through it    *)
(* and an enemy slider of the matching kind stands on that line with sq    *)
(* the only occupied square strictly between king and slider; the result   *)
(* is then the line through the king and that slider, and all-ones in      *)
(* every other case.                                                       *)
(***************************************************************************)
C15_PinMask ==
    call[1] = "pin_mask"
    => LET king_sq == spec_king(board, call[2])
           pinners == IF has_value(king_sq)
                      THEN Pinners(board, call[2], call[3], value(king_sq))
                      ELSE BB_EMPTY
       IN  IF pinners = BB_EMPTY THEN ret = BB_ALL
           ELSE /\ ret # BB_ALL
                /\ \E slider \in pinners : ret = ray(value(king_sq), slider)

(***************************************************************************)
(* sqgen::CRGenerator and sqgen::CRRange: the carry-rippler                *)
(***************************************************************************)
\* a - b on unsigned 64-bit words, from bit i upwards with a borrow: the
\* bits below the next set bit of a or b are all equal to the borrow
RECURSIVE SubFrom(_, _, _, _)
SubFrom(a, b, i, borrow) ==
    LET pending == {j \in a \cup b : j >= i} IN
    IF pending = BB_EMPTY
    THEN (IF borrow = 1 THEN i..(SquareCount - 1) ELSE BB_EMPTY)
    ELSE LET n == MinOf(pending)
             d == (IF n \in a THEN 1 ELSE 0) - (IF n \in b THEN 1 ELSE 0)
                  - borrow
         IN  (IF borrow = 1 THEN i..(n - 1) ELSE BB_EMPTY)
             \cup (IF d % 2 = 1 THEN {n} ELSE BB_EMPTY)
             \cup SubFrom(a, b, n + 1, IF d < 0 THEN 1 ELSE 0)

Sub64(a, b) == SubFrom(a, b, 0, 0)

CRGenerator(mask) ==
    [subset |-> BB_EMPTY, mask |-> mask, END_SENTINEL |-> FALSE]

\* a faulty operator++ that also stops when the subset reaches the mask
CRGenerator_increment_short(g) ==
    LET subset == Sub64(g.subset, g.mask) \cap g.mask IN
    [g EXCEPT !.subset = IF subset = g.mask THEN BB_EMPTY ELSE subset,
              !.END_SENTINEL = @ \/ subset = BB_EMPTY \/ subset = g.mask]

\* operator++: subset = (subset - mask) & mask; END_SENTINEL once it is 0
CRGenerator_increment(g) ==
    LET subset == Sub64(g.subset, g.mask) \cap g.mask IN
    [g EXCEPT !.subset = subset,
              !.END_SENTINEL = @ \/ subset = BB_EMPTY]

\* the elements a range-for over CRRange(mask) visits: operator== compares
\* END_SENTINEL only.  The loop is unrolled in blocks of RunBlock steps to
\* keep the evaluation shallow.
RunBlock == 32

RECURSIVE CRRange_block(_, _, _)
CRRange_block(g, n, elems) ==
    IF g.END_SENTINEL \/ n = 0 THEN [elems |-> elems, g |-> g]
    ELSE CRRange_block(CRGenerator_increment(g), n - 1,
                       Append(elems, g.subset))

RECURSIVE CRRange_run(_)
CRRange_after(block) == block.elems \o CRRange_run(block.g)

CRRange_run(g) ==
    IF g.END_SENTINEL THEN <<>>
    ELSE CRRange_after(CRRange_block(g, RunBlock, <<>>))

_carry_rippler(mask) == CRRange_run(CRGenerator(mask))

(***************************************************************************)
(* _attack_table: the table of a square holds one entry for each subset    *)
(* the carry-rippler gives for the square's mask                           *)
(***************************************************************************)
_attack_table_keys(square, deltas) ==
    SeqRange(_carry_rippler(AttackMask(square, deltas)))

\* attack_table[square].at(key)
_attack_table_at(square, deltas, key) ==
    IF key \in _attack_table_keys(square, deltas)
    THEN _sliding_attacks(square, key, deltas)
    ELSE "out_of_range"

(***************************************************************************)
(* SpecTable: lookups in the three tables for a corner square, an edge     *)
(* square and an inner square under occupancies that hold blockers on the  *)
(* rays, on the edges and off the rays                                     *)
(***************************************************************************)
SQ_B4 == 25
SQ_G7 == 54

TableSquares == {SQ_A1, SQ_E1, SQ_B2}

TableFamilies == {_DIAG, _FILE, _RANK}

\* blockers on the ranks (c1, f2), the files (b4, a8) and the diagonals
\* (b4, h4, g7, h8) of the squares; a8, h4 and h8 are edge squares
TableBlockers == {SQ_C1, SQ_F2, SQ_B4, SQ_H4, SQ_G7, SQ_A8, SQ_H8}

InitTable ==
    /\ board \in SUBSET TableBlockers
    /\ call = <<"init">>
    /\ ret = nullopt

\* the runtime lookup of attacks_mask and _attackers_mask:
\* BB_x_ATTACKS[square].at(BB_x_MASKS[square] & occupied)
call_attack_lookup ==
    \E square \in TableSquares, deltas \in TableFamilies :
        /\ call' = <<"attack_lookup", square, deltas>>
        /\ ret' = _attack_table_at(square, deltas,
                      AttackMask(square, deltas) \cap board)
        /\ UNCHANGED board

NextTable == call_attack_lookup

SpecTable == InitTable /\ [][NextTable]_vars

(***************************************************************************)
(* C16: for a square s, an occupancy O and a direction family D, the key   *)
(* O & M(s, D) is present in the table of s and the value found under it   *)
(* equals _sliding_attacks(s, O, D) computed on the full occupancy.        *)
(***************************************************************************)
C16_TableMatchesReference ==
    call[1] = "attack_lookup"
    => ret = _sliding_attacks(call[2], board, call[3])

\* a lookup from b2 along the diagonals with a blocker on the ray (g7), one
\* on the edge behind it (h8) and one off the rays (f2)
C16_Witness ==
    /\ call = <<"attack_lookup", SQ_B2, _DIAG>>
    /\ {SQ_G7, SQ_H8, SQ_F2} \subseteq board
    /\ SQ_G7 \in ret /\ SQ_H8 \notin ret /\ SQ_C1 \in ret

(***************************************************************************)
(* SpecScan: a loop over sqgen::Range, as std::copy(range.begin(),         *)
(* range.end(), back_inserter) runs it.  board holds the range's bitboard, *)
(* the direction and the iterator's bitboard; ret holds the squares        *)
(* copied so far.                                                          *)
(***************************************************************************)
ScanBits == {0, 1, 2, 31, 32, 63}

InitScan ==
    /\ board = [start |-> BB_EMPTY, Direction |-> Forward, bb |-> BB_EMPTY]
    /\ call = <<"init">>
    /\ ret = <<>>

\* Range(bb).begin()
scan_begin ==
    \E bb \in SUBSET ScanBits, Direction \in {Forward, Reverse} :
        /\ board' = [start |-> bb, Direction |-> Direction, bb |-> bb]
        /\ call' = <<"begin">>
        /\ ret' = <<>>

\* one round of the loop: it != end(), *out = *it, ++it
scan_next ==
    /\ call[1] \in {"begin", "next"}
    /\ board.bb # BB_EMPTY
    /\ ret' = Append(ret, SquareIterator_deref(board.bb, board.Direction))
    /\ board' = [board EXCEPT
                   !.bb = SquareIterator_increment(board.bb, board.Direction)]
    /\ call' = <<"next">>

NextScan == scan_begin \/ scan_next

SpecScan == InitScan /\ [][NextScan]_vars

(***************************************************************************)
(* C17: iterating the Forward range of a bitboard yields each set bit      *)
(* exactly once in strictly ascending order and then ends; the Reverse     *)
(* range yields the same squares in strictly descending order; an empty    *)
(* bitboard yields nothing.  At every point of the loop the squares        *)
(* copied are, once each and in order, the set bits that have left the     *)
(* iterator, so the loop ends after popcount(bb) rounds with all of them.  *)
(***************************************************************************)
C17_ScanOrder ==
    call[1] \in {"begin", "next"}
    => /\ board.bb \subseteq board.start
       /\ SeqRange(ret) = board.start \ board.bb
       /\ Len(ret) = Cardinality(board.start \ board.bb)
       /\ \A i \in 1..Len(ret) : \A j \in 1..Len(ret) :
             i < j => IF board.Direction = Forward
                      THEN ret[i] < ret[j] ELSE ret[i] > ret[j]
       /\ \A i \in 1..Len(ret) : \A sq \in board.bb :
             IF board.Direction = Forward THEN ret[i] < sq ELSE ret[i] > sq

\* the Reverse loop over bb = 7 has ended with 2, 1, 0
C17_Witness ==
    /\ call[1] = "next"
    /\ board = [start |-> {0, 1, 2}, Direction |-> Reverse, bb |-> BB_EMPTY]
    /\ ret = <<2, 1, 0>>

(***************************************************************************)
(* SpecCR: a loop over sqgen::CRRange, as std::copy(range.begin(),         *)
(* range.end(), back_inserter) runs it.  board holds the generator; ret    *)
(* holds the subsets copied so far.                                        *)
(***************************************************************************)
CRBits == {0, 1, 2, 5, 63}

InitCR ==
    /\ board = CRGenerator(BB_EMPTY)
    /\ call = <<"init">>
    /\ ret = <<>>

\* CRRange(mask).begin()
cr_begin ==
    \E mask \in SUBSET CRBits :
        /\ board' = CRGenerator(mask)
        /\ call' = <<"cr_begin">>
        /\ ret' = <<>>

\* one round of the loop: it != end(), *out = *it, ++it
cr_next ==
    /\ call[1] \in {"cr_begin", "cr_next"}
    /\ ~board.END_SENTINEL
    /\ ret' = Append(ret, board.subset)
    /\ board' = CRGenerator_increment(board)
    /\ call' = <<"cr_next">>

NextCR == cr_begin \/ cr_next

SpecCR == InitCR /\ [][NextCR]_vars

\* a < b as unsigned numbers: the highest bit in which they differ is b's
BBLess(a, b) == a # b /\ MaxOf(Xor(a, b)) \in b

(***************************************************************************)
(* C18: iterating CRRange(M) ends after exactly 2^popcount(M) elements,    *)
(* starts with 0 and yields every subset of M exactly once, in strictly    *)
(* increasing numeric order.  At every point of the loop the subsets       *)
(* copied are, once each and in order, the subsets of M below the          *)
(* generator's subset, and all subsets of M once the generator has ended.  *)
(***************************************************************************)
C18_CarryRippler ==
    call[1] \in {"cr_begin", "cr_next"}
    => LET done == IF board.END_SENTINEL THEN SUBSET board.mask
                   ELSE {s \in SUBSET board.mask : BBLess(s, board.subset)}
       IN  /\ board.subset \subseteq board.mask
           /\ SeqRange(ret) = done
           /\ Len(ret) = Cardinality(done)
           /\ \A i \in 1..Len(ret) : \A j \in 1..Len(ret) :
                 i < j => BBLess(ret[i], ret[j])
           /\ ret # <<>> => ret[1] = BB_EMPTY
           /\ board.END_SENTINEL => Len(ret) = 2 ^ popcount(board.mask)

\* the loop over M = 7 has ended with 0, 1, 2, 3, 4, 5, 6, 7
C18_Witness ==
    /\ call[1] = "cr_next"
    /\ board.END_SENTINEL
    /\ board.mask = {0, 1, 2}
    /\ ret = <<{}, {0}, {1}, {0, 1}, {2}, {0, 2}, {1, 2}, {0, 1, 2}>>

(***************************************************************************)
(* SpecFenError: set_board_fen on board-FENs with a defect in the rank-8   *)
(* field, the rank-1 field or the number of rows                           *)
(***************************************************************************)
\* the character tolower(char) turns into '-', the carriage return
CarriageReturn == CharCode["-"] - (CharCode["a"] - CharCode["A"])

GoodField == Str(<<"8">>)

\* wrong column sums, two digits in a row, stray '~', and characters that
\* are no digit 1-8, piece letter, '~' or '/'
BadFields ==
    {Str(<<"7">>), Str(<<"4", "4">>), Str(<<"~", "8">>),
     Str(<<"4", "~", "4">>), Str(<<"7", "-">>), Str(<<"3", "-", "4">>),
     Str(<<"7", "z">>), Str(<<"8", "0">>), Str(<<"7">>) \o <<CarriageReturn>>,
     Str(<<"k", "8">>)}

EmptyRows(n) == [i \in 1..(2 * n) |-> IF i % 2 = 1 THEN CharCode["/"] ELSE CharCode["8"]]

BadFenInputs ==
    {r8 \o EmptyRows(6) \o <<CharCode["/"]>> \o r1 :
        r8 \in BadFields \cup {GoodField}, r1 \in BadFields}
    \cup {r8 \o EmptyRows(6) \o <<CharCode["/"]>> \o GoodField : r8 \in BadFields}
    \cup {GoodField \o EmptyRows(6), GoodField \o EmptyRows(8)}

InitFenError ==
    /\ board \in {reset(BlankBoard), GamePosition(FALSE)}
    /\ call = <<"init">>
    /\ ret = nullopt

call_set_board_fen ==
    \E fen \in BadFenInputs :
        /\ call[1] = "init"
        /\ board' = _set_board_fen(board, fen).board
        /\ call' = <<"set_board_fen", fen, Masks(board)>>
        /\ ret' = _set_board_fen(board, fen).ret

NextFenError == call_set_board_fen

SpecFenError == InitFenError /\ [][NextFenError]_vars

PieceLetters ==
    {CharCode[c] : c \in {"p", "n", "b", "r", "q", "k",
                          "P", "N", "B", "R", "Q", "K"}}

\* the defects of one row
RowIsInvalid(row) ==
    LET fields(i) == IF row[i] \in Digits THEN to_int(row[i])
                     ELSE IF row[i] \in PieceLetters THEN 1 ELSE 0
        RECURSIVE sum(_)
        sum(i) == IF i = 0 THEN 0 ELSE fields(i) + sum(i - 1)
    IN  \/ \E i \in DOMAIN row :
              row[i] \notin Digits \cup PieceLetters \cup {CharCode["~"]}
        \/ \E i \in DOMAIN row :
              i > 1 /\ row[i] \in Digits /\ row[i - 1] \in Digits
        \/ \E i \in DOMAIN row :
              row[i] = CharCode["~"] /\ (i = 1 \/ row[i - 1] \notin PieceLetters)
        \/ sum(Len(row)) # 8

IsInvalidFen(fen) ==
    \/ Len(split(fen, CharCode["/"])) # 8
    \/ \E i \in DOMAIN split(fen, CharCode["/"]) :
          RowIsInvalid(split(fen, CharCode["/"])[i])

(***************************************************************************)
(* C19: set_board_fen(fen) fails with an InvalidFen error and leaves all   *)
(* board masks as they were whenever fen has a row count other than 8, a   *)
(* row whose column sum is not 8, two consecutive digits, a '~' that does  *)
(* not directly follow a piece letter, or a character that is no digit     *)
(* 1-8, piece letter, '~' or '/'.                                          *)
(***************************************************************************)
C19_InvalidFenRejected ==
    (call[1] = "set_board_fen" /\ IsInvalidFen(call[2]))
    => (ret = Some("invalid_argument") /\ Masks(board) = call[3])

(***************************************************************************)
(* SquareSet: remove and pop.  board holds the set's mask; ret holds the   *)
(* exception thrown, if any, and the value returned, if any.               *)
(***************************************************************************)
SquareSetBits == {0, 1, 7, 32, 63}

\* __builtin_ctzll(0) is undefined: the trailing-zero count 64, or whatever
\* the destination register held
CtzOfZero == {0, 7, 64}

Returned(v) == [thrown |-> nullopt, value |-> v]
Thrown(e) == [thrown |-> Some(e), value |-> nullopt]

\* SquareSet::remove: the mask after the call and the outcome
SquareSet_remove(mask, square) ==
    LET removal_mask == BB_SQUARES[square] IN
    IF mask \cap removal_mask # BB_EMPTY
    THEN [mask |-> Xor(mask, removal_mask), ret |-> Returned(nullopt)]
    ELSE [mask |-> mask, ret |-> Thrown("invalid_argument")]

\* SquareSet::pop: on an empty mask the std::invalid_argument is built but
\* not thrown, and lsb(0) is returned; square is what lsb(mask) gave
SquareSet_pop(mask, square) ==
    [mask |-> IF mask = BB_EMPTY THEN BB_EMPTY ELSE mask \ {lsb(mask)},
     ret |-> Returned(Some(square))]

InitSquareSet ==
    /\ board \in SUBSET SquareSetBits
    /\ call = <<"init">>
    /\ ret = Returned(nullopt)

call_remove ==
    \E square \in SquareSetBits :
        /\ board' = SquareSet_remove(board, square).mask
        /\ ret' = SquareSet_remove(board, square).ret
        /\ call' = <<"remove", board, square>>

call_pop ==
    \E square \in (IF board = BB_EMPTY THEN CtzOfZero ELSE {lsb(board)}) :
        /\ board' = SquareSet_pop(board, square).mask
        /\ ret' = SquareSet_pop(board, square).ret
        /\ call' = <<"pop", board>>

NextSquareSet == call_remove \/ call_pop

SpecSquareSet == InitSquareSet /\ [][NextSquareSet]_vars

(***************************************************************************)
(* C20: on a SquareSet, pop() on an empty set and remove(sq) for a square  *)
(* not in the set both raise an error and leave the set unchanged; pop()   *)
(* on a non-empty set removes and returns its lowest square, and           *)
(* remove(sq) of a member removes exactly sq.                              *)
(***************************************************************************)
C20_SquareSetErrors ==
    /\ call[1] = "pop" =>
          IF call[2] = BB_EMPTY
          THEN has_value(ret.thrown) /\ board = call[2]
          ELSE /\ ret = Returned(Some(MinOf(call[2])))
               /\ board = call[2] \ {MinOf(call[2])}
    /\ call[1] = "remove" =>
          IF call[3] \notin call[2]
          THEN has_value(ret.thrown) /\ board = call[2]
          ELSE ret = Returned(nullopt) /\ board = call[2] \ {call[3]}

(***************************************************************************)
(* Square names and UCI strings.  SQUARE_NAMES and enum Square are written *)
(* file by file ("A1", "A2", .., "A8", "B1", ..), in capital letters;      *)
(* parse_square, square_name, Move::uci and Move::from_uci index them.     *)
(***************************************************************************)
\* the entry of SQUARE_NAMES at index i: letter i / 8, digit i % 8
SQUARE_NAMES ==
    [i \in 0..63 |-> <<CharCode["A"] + (i \div 8), CharCode["1"] + (i % 8)>>]

\* index(SQUARE_NAMES, val): the distance to the first equal entry, 64 (the
\* distance to end()) when there is none
index_SQUARE_NAMES(val) ==
    IF \E i \in 0..63 : SQUARE_NAMES[i] = val
    THEN CHOOSE i \in 0..63 : SQUARE_NAMES[i] = val
    ELSE 64

parse_square(name) == index_SQUARE_NAMES(name)

square_name(square) == SQUARE_NAMES[square]

\* enum Square: the value of the enumerator spelled by a letter and a digit
\* is its position in the enumerator list
Square_enum(name) == index_SQUARE_NAMES(name)

\* index(PIECE_SYMBOLS, c) for a character c
index_PIECE_SYMBOLS(c) == FindSymbol(<<c>>)

\* std::tolower of the C library
std_tolower(c) ==
    IF c >= CharCode["A"] /\ c <= CharCode["Z"]
    THEN c + (CharCode["a"] - CharCode["A"]) ELSE c

\* Move::null
Move_null == Move(A1, A1, nullopt)

\* Move::uci
Move_uci(m) ==
    IF has_value(m.drop)
    THEN toupper(piece_symbol(value(m.drop))) \o Str(<<"@">>) \o SQUARE_NAMES[m.to_square]
    ELSE IF has_value(m.promotion)
    THEN SQUARE_NAMES[m.from_square] \o SQUARE_NAMES[m.to_square]
            \o piece_symbol(value(m.promotion))
    ELSE IF Move_bool(m)
    THEN SQUARE_NAMES[m.from_square] \o SQUARE_NAMES[m.to_square]
    ELSE Str(<<"0", "0", "0", "0">>)

\* Move::from_uci: the move returned or the exception thrown
from_uci(uci) ==
    IF uci = Str(<<"0", "0", "0", "0">>) THEN Returned(Move_null)
    ELSE IF Len(uci) = 4 /\ uci[2] = CharCode["@"]
    THEN LET drop == index_PIECE_SYMBOLS(std_tolower(uci[1]))
             square == index_SQUARE_NAMES(SubSeq(uci, 3, Len(uci)))
         IN  Returned([from_square |-> square, to_square |-> square,
                       promotion |-> nullopt, drop |-> Some(drop)])
    ELSE IF 4 <= Len(uci) /\ Len(uci) <= 5
    THEN LET from_square == index_SQUARE_NAMES(SubSeq(uci, 1, 2))
             to_square == index_SQUARE_NAMES(SubSeq(uci, 3, 4))
             promotion == IF Len(uci) = 5
                          THEN Some(index_PIECE_SYMBOLS(uci[5]))
                          ELSE nullopt
         IN  IF from_square = to_square THEN Thrown("invalid_argument")
             ELSE Returned(Move(from_square, to_square, promotion))
    ELSE Thrown("invalid_argument")

(***************************************************************************)
(* Parsing UCI strings: the strings are built from square names in small   *)
(* and capital letters, a name of no square, and a fifth character; the    *)
(* moves written and read back run over the same squares.                  *)
(***************************************************************************)
SQ_B5 == 33
SQ_F7 == 53

\* the name of a square as the UCI notation writes it
LowerName(s) == <<CharCode["a"] + (s % 8), CharCode["1"] + (s \div 8)>>
UpperName(s) == <<CharCode["A"] + (s % 8), CharCode["1"] + (s \div 8)>>

UciSquares == {SQ_A1, SQ_E2, SQ_E4, SQ_A7, SQ_A8, SQ_H8}

\* "i9" names no square
NoSquareName == <<CharCode["a"] + 8, CharCode["1"] + 8>>

UciNames ==
    {LowerName(s) : s \in UciSquares} \cup {UpperName(s) : s \in UciSquares}
        \cup {NoSquareName}

UciFifth == {<<>>, Str(<<"q">>), Str(<<"n">>), Str(<<"Q">>), Str(<<"~">>)}

UciInputs ==
    {n1 \o n2 \o p : n1 \in UciNames, n2 \in UciNames, p \in UciFifth}
        \cup {Str(<<"0", "0", "0", "0">>), <<>>,
              LowerName(SQ_E2), LowerName(SQ_E2) \o Str(<<"4">>),
              LowerName(SQ_E2) \o LowerName(SQ_E4) \o Str(<<"q", "q">>),
              Str(<<"P", "@">>) \o LowerName(SQ_E4),
              Str(<<"~", "@">>) \o LowerName(SQ_E4),
              Str(<<"P", "@">>) \o NoSquareName}

UciMoves ==
    {Move(f, t, p) : f \in UciSquares \cup {SQ_B5}, t \in UciSquares \cup {SQ_F7},
                     p \in {nullopt, Some(QUEEN), Some(KNIGHT)}}

InitUci ==
    /\ board = BB_EMPTY
    /\ call = <<"init">>
    /\ ret = Returned(nullopt)

call_from_uci ==
    \E uci \in UciInputs :
        /\ call' = <<"from_uci", uci>>
        /\ ret' = from_uci(uci)
        /\ UNCHANGED board

call_uci_from_uci ==
    \E m \in UciMoves :
        /\ m.from_square # m.to_square
        /\ call' = <<"from_uci(uci)", m>>
        /\ ret' = from_uci(Move_uci(m))
        /\ UNCHANGED board

NextUci == call_from_uci \/ call_uci_from_uci

SpecUci == InitUci /\ [][NextUci]_vars

\* the square a name in small letters stands for (a1 = 0, b1 = 1, ..),
\* nothing for any other string
NamedSquare(name) ==
    IF \E s \in AllSquares : LowerName(s) = name
    THEN Some(CHOOSE s \in AllSquares : LowerName(s) = name)
    ELSE nullopt

\* the piece type a promotion letter stands for
PromotionOf(c) ==
    IF \E p \in PieceTypes : PIECE_SYMBOLS[p] = <<c>>
    THEN Some(CHOOSE p \in PieceTypes : PIECE_SYMBOLS[p] = <<c>>)
    ELSE nullopt

IsDropSyntax(u) == Len(u) = 4 /\ u[2] = CharCode["@"]

\* the strings the notation does not admit
IsInvalidUci(u) ==
    IF u = Str(<<"0", "0", "0", "0">>) THEN FALSE
    ELSE IF IsDropSyntax(u)
    THEN \/ ~has_value(PromotionOf(std_tolower(u[1])))
         \/ ~has_value(NamedSquare(SubSeq(u, 3, 4)))
    ELSE \/ Len(u) \notin {4, 5}
         \/ ~has_value(NamedSquare(SubSeq(u, 1, 2)))
         \/ ~has_value(NamedSquare(SubSeq(u, 3, 4)))
         \/ Len(u) = 5 /\ ~has_value(PromotionOf(u[5]))
         \/ SubSeq(u, 1, 2) = SubSeq(u, 3, 4)

(***************************************************************************)
(* C21: Move::from_uci(u) raises an error for every string u whose length  *)
(* is not 4 or 5, that contains a square name not among the 64 square      *)
(* names, that has an unknown promotion or drop piece symbol, or that has  *)
(* equal from and to squares outside "0000" and the drop syntax; for every *)
(* other u (square names in small letters, as in "e2e4" and "a7a8q") it    *)
(* returns the move with those from and to squares and promotion; and      *)
(* from_uci(m.uci()) = m for every move m that is not null, not a drop and *)
(* has from # to.                                                          *)
(***************************************************************************)
C21_FromUci ==
    /\ call[1] = "from_uci" =>
          LET u == call[2] IN
          IF IsInvalidUci(u) THEN has_value(ret.thrown)
          ELSE IF u = Str(<<"0", "0", "0", "0">>) THEN ret = Returned(Move_null)
          ELSE IF IsDropSyntax(u)
          THEN /\ ~has_value(ret.thrown)
               /\ ret.value.to_square = value(NamedSquare(SubSeq(u, 3, 4)))
               /\ ret.value.drop = PromotionOf(std_tolower(u[1]))
          ELSE ret = Returned(Move(value(NamedSquare(SubSeq(u, 1, 2))),
                                   value(NamedSquare(SubSeq(u, 3, 4))),
                                   IF Len(u) = 5 THEN PromotionOf(u[5])
                                   ELSE nullopt))
    /\ call[1] = "from_uci(uci)" => ret = Returned(call[2])

(***************************************************************************)
(* Naming squares: square_name, parse_square and the enumerators of        *)
(* enum Square are asked about every square; parse_square also reads       *)
(* strings that name no square.                                            *)
(***************************************************************************)
NotSquareNames ==
    {NoSquareName, <<>>, Str(<<"a">>), LowerName(SQ_E4) \o Str(<<"4">>),
     Str(<<"0", "0">>)}

InitSquareName ==
    /\ board \in AllSquares
    /\ call = <<"init">>
    /\ ret = Returned(nullopt)

call_square_name ==
    /\ call' = <<"square_name", board>>
    /\ ret' = Returned(square_name(board))
    /\ UNCHANGED board

call_parse_square ==
    \E name \in {LowerName(board), UpperName(board)} \cup NotSquareNames :
        /\ call' = <<"parse_square", name>>
        /\ ret' = Returned(parse_square(name))
        /\ UNCHANGED board

call_parse_square_name ==
    /\ call' = <<"parse_square(square_name)", board>>
    /\ ret' = Returned(parse_square(square_name(board)))
    /\ UNCHANGED board

call_Square ==
    /\ call' = <<"Square", UpperName(board)>>
    /\ ret' = Returned(Square_enum(UpperName(board)))
    /\ UNCHANGED board

NextSquareName ==
    call_square_name \/ call_parse_square \/ call_parse_square_name \/ call_Square

SpecSquareName == InitSquareName /\ [][NextSquareName]_vars

(***************************************************************************)
(* C22: for every square index s in [0,64), square_name(s) is the small    *)
(* file letter of (s & 7) followed by the rank digit of (s >> 3) + 1; the  *)
(* Square constant with that file letter and rank digit has the value s    *)
(* (A1 = 0, B1 = 1, H1 = 7, A2 = 8, H8 = 63);                              *)
(* parse_square(square_name(s)) = s; and parse_square of a string that is  *)
(* not a square name raises an error.                                      *)
(***************************************************************************)
C22_SquareNames ==
    /\ call[1] = "square_name" => ret = Returned(LowerName(call[2]))
    /\ call[1] = "Square" => ret = Returned(board)
    /\ call[1] = "parse_square(square_name)" => ret = Returned(call[2])
    /\ call[1] = "parse_square" =>
          IF has_value(NamedSquare(call[2]))
          THEN ret = Returned(value(NamedSquare(call[2])))
          ELSE has_value(ret.thrown)

(***************************************************************************)
(* Game end: no_legal_moves, is_checkmate and is_stalemate                 *)
(***************************************************************************)
\* no_legal_moves: the legal-move range is empty (begin == end)
no_legal_moves(b) == generate_legal_moves(b) = {}

is_checkmate(b) ==
    IF ~is_check(b) THEN FALSE ELSE no_legal_moves(b)

is_stalemate(b) ==
    IF is_check(b) THEN FALSE
    ELSE IF is_variant_end(b) THEN FALSE
    ELSE no_legal_moves(b)

(***************************************************************************)
(* SpecMate: a white king in a corner region, with or without its pawn     *)
(* shield, against a black king and a black rook or queen, either side to  *)
(* move: back-rank mates, stalemates in the corner and ordinary positions  *)
(***************************************************************************)
SQ_G2 == 14
SQ_H2 == 15
SQ_B7 == 49

MateShields == {{}, {SQ_F2, SQ_G2, SQ_H2}}

MatePosition(wk, shield, piece_type, sq, bk, turn) ==
    [PlaceAll(clear(BlankBoard),
        << <<wk, KING, WHITE>>, <<sq, piece_type, BLACK>>,
           <<bk, KING, BLACK>> >>
        \o (IF shield = {} THEN <<>>
            ELSE << <<SQ_F2, PAWN, WHITE>>, <<SQ_G2, PAWN, WHITE>>,
                    <<SQ_H2, PAWN, WHITE>> >>))
     EXCEPT !.turn = turn]

MatePositionsWith(shield) ==
    {MatePosition(wk, shield, piece_type, sq, bk, turn) :
        wk \in {SQ_G1, SQ_H1}, piece_type \in {ROOK, QUEEN},
        sq \in {SQ_E1, SQ_F2, SQ_E8, SQ_D5} \ shield,
        bk \in {SQ_G8, SQ_C6, SQ_B7}, turn \in Colors}

MatePositions == UNION {MatePositionsWith(shield) : shield \in MateShields}

InitMate ==
    /\ board \in MatePositions
    /\ call = <<"init">>
    /\ ret = nullopt

call_is_checkmate ==
    /\ call' = <<"is_checkmate">>
    /\ ret' = is_checkmate(board)
    /\ UNCHANGED board

call_is_stalemate ==
    /\ call' = <<"is_stalemate">>
    /\ ret' = is_stalemate(board)
    /\ UNCHANGED board

call_no_legal_moves ==
    /\ call' = <<"no_legal_moves">>
    /\ ret' = no_legal_moves(board)
    /\ UNCHANGED board

NextMate == call_is_checkmate \/ call_is_stalemate \/ call_no_legal_moves

SpecMate == InitMate /\ [][NextMate]_vars

(***************************************************************************)
(* C23: in every position, is_checkmate() is true iff the side to move is  *)
(* in check and has no legal move, is_stalemate() is true iff it is not in *)
(* check and has no legal move; the two are never both true; and           *)
(* no_legal_moves() is true iff the legal-move generator yields no move.   *)
(***************************************************************************)
C23_MateAndStalemate ==
    /\ call[1] = "is_checkmate" =>
          (ret <=> (spec_is_check(board) /\ generate_legal_moves(board) = {}))
    /\ call[1] = "is_stalemate" =>
          (ret <=> (~spec_is_check(board) /\ generate_legal_moves(board) = {}))
    /\ call[1] = "no_legal_moves" => (ret <=> generate_legal_moves(board) = {})
    /\ ~(is_checkmate(board) /\ is_stalemate(board))

(***************************************************************************)
(* Insufficient material                                                   *)
(***************************************************************************)
\* a variant that does not look at the squares the bishops stand on
has_insufficient_material_any_bishops(b, color) ==
    IF b.occupied_co[color] \cap (b.pawns \cup b.rooks \cup b.queens) # BB_EMPTY
    THEN FALSE
    ELSE IF b.occupied_co[color] \cap b.knights # BB_EMPTY
    THEN /\ popcount(b.occupied_co[color]) <= 2
         /\ (b.occupied_co[NotColor(color)] \cap Not(b.kings)) \cap Not(b.queens)
                = BB_EMPTY
    ELSE IF b.occupied_co[color] \cap b.bishops # BB_EMPTY
    THEN b.pawns = BB_EMPTY /\ b.knights = BB_EMPTY
    ELSE TRUE

has_insufficient_material(b, color) ==
    IF b.occupied_co[color] \cap (b.pawns \cup b.rooks \cup b.queens) # BB_EMPTY
    THEN FALSE
    ELSE IF b.occupied_co[color] \cap b.knights # BB_EMPTY
    THEN /\ popcount(b.occupied_co[color]) <= 2
         /\ (b.occupied_co[NotColor(color)] \cap Not(b.kings)) \cap Not(b.queens)
                = BB_EMPTY
    ELSE IF b.occupied_co[color] \cap b.bishops # BB_EMPTY
    THEN LET same_color == \/ b.bishops \cap BB_DARK_SQUARES = BB_EMPTY
                           \/ b.bishops \cap BB_LIGHT_SQUARES = BB_EMPTY
         IN  same_color /\ b.pawns = BB_EMPTY /\ b.knights = BB_EMPTY
    ELSE TRUE

is_insufficient_material(b) ==
    has_insufficient_material(b, WHITE) /\ has_insufficient_material(b, BLACK)

(***************************************************************************)
(* SpecMaterial: the two kings and any choice of further pieces: knights,  *)
(* bishops on both colour complexes, a pawn, a rook and queens             *)
(***************************************************************************)
MaterialPieces ==
    {<<SQ_B1, KNIGHT, WHITE>>, <<SQ_G1, KNIGHT, WHITE>>,
     <<SQ_C1, BISHOP, WHITE>>, <<SQ_F1, BISHOP, WHITE>>, <<SQ_A1, ROOK, WHITE>>,
     <<SQ_D1, QUEEN, WHITE>>,
     <<SQ_B8, KNIGHT, BLACK>>, <<SQ_C8, BISHOP, BLACK>>,
     <<SQ_F8, BISHOP, BLACK>>, <<SQ_A7, PAWN, BLACK>>, <<SQ_D8, QUEEN, BLACK>>}

RECURSIVE PlaceSet(_, _)
PlaceSet(b, pieces) ==
    IF pieces = {} THEN b
    ELSE LET p == CHOOSE q \in pieces : TRUE IN
         PlaceSet(BaseBoard_set_piece_at(b, p[1], Some(Piece(p[2], p[3])), FALSE),
                  pieces \ {p})

MaterialPosition(pieces) ==
    PlaceSet(clear(BlankBoard),
             {<<SQ_E1, KING, WHITE>>, <<SQ_E8, KING, BLACK>>} \cup pieces)

InitMaterial ==
    /\ board \in {MaterialPosition(pieces) : pieces \in SUBSET MaterialPieces}
    /\ call = <<"init">>
    /\ ret = nullopt

call_has_insufficient_material ==
    \E color \in Colors :
        /\ call' = <<"has_insufficient_material", color>>
        /\ ret' = has_insufficient_material(board, color)
        /\ UNCHANGED board

call_is_insufficient_material ==
    /\ call' = <<"is_insufficient_material">>
    /\ ret' = is_insufficient_material(board)
    /\ UNCHANGED board

NextMaterial == call_has_insufficient_material \/ call_is_insufficient_material

SpecMaterial == InitMaterial /\ [][NextMaterial]_vars

\* the squares of the pieces of a type that a colour has
PiecesOf(b, c, mask) == {s \in mask : s \in b.occupied_co[c]}

\* light or dark: the parity of file + rank
ColourComplex(s) == ((s % 8) + (s \div 8)) % 2

\* a colour has insufficient material, as the rule is worded
InsufficientFor(b, c) ==
    LET opp == NotColor(c) IN
    /\ PiecesOf(b, c, b.pawns \cup b.rooks \cup b.queens) = {}
    /\ IF PiecesOf(b, c, b.knights) # {}
       THEN /\ Cardinality(b.occupied_co[c]) <= 2
            /\ \A s \in b.occupied_co[opp] : s \in b.kings \cup b.queens
       ELSE IF PiecesOf(b, c, b.bishops) # {}
       THEN /\ \A s, t \in b.bishops : ColourComplex(s) = ColourComplex(t)
            /\ b.pawns = {}
            /\ b.knights = {}
       ELSE TRUE

(***************************************************************************)
(* C24: has_insufficient_material(c) is true iff c has no pawns, rooks or  *)
(* queens and: if c has any knight, c has at most 2 pieces in total and    *)
(* the opponent has no piece other than kings and queens; otherwise, if c  *)
(* has any bishop, all bishops of both sides stand on squares of one       *)
(* colour complex and there are no pawns and no knights on the board;      *)
(* otherwise (bare king) true.  is_insufficient_material() is true iff     *)
(* this holds for both colours.                                            *)
(***************************************************************************)
C24_InsufficientMaterial ==
    /\ call[1] = "has_insufficient_material" =>
          (ret <=> InsufficientFor(board, call[2]))
    /\ call[1] = "is_insufficient_material" =>
          (ret <=> (InsufficientFor(board, WHITE) /\ InsufficientFor(board, BLACK)))

\* has_insufficient_material answered true for a colour with a bishop while
\* the other colour has a bishop too
C24_Witness ==
    /\ call[1] = "has_insufficient_material"
    /\ ret = TRUE
    /\ PiecesOf(board, call[2], board.bishops) # {}
    /\ PiecesOf(board, NotColor(call[2]), board.bishops) # {}

(***************************************************************************)
(* Outcome of the game                                                     *)
(***************************************************************************)
Outcome(termination, winner) == [termination |-> termination, winner |-> winner]

\* Outcome::result: winner.value() is read as a bool, and WHITE converts to
\* false
Outcome_result(o) ==
    IF has_value(o.winner)
    THEN (IF value(o.winner) # 0 THEN "1-0" ELSE "0-1")
    ELSE "1/2-1/2"

_is_halfmoves(b, n) == b.halfmove_clock >= n /\ ~no_legal_moves(b)

is_seventyfive_moves(b) == _is_halfmoves(b, 150)

is_fifty_moves(b) == _is_halfmoves(b, 100)

\* the body of the loop of can_claim_fifty_moves after push(move)
FiftyAfterPush(pushed) ==
    [board |-> pop(pushed).board, ret |-> is_fifty_moves(pushed)]

\* the loop of can_claim_fifty_moves over the legal moves not yet tried; r
\* is the outcome of the move just tried
RECURSIVE FiftyNext(_, _)
FiftyNext(r, moves) ==
    IF r.ret THEN r
    ELSE IF moves = {} THEN [board |-> r.board, ret |-> FALSE]
    ELSE IF is_zeroing(r.board, CHOOSE m \in moves : TRUE)
    THEN FiftyNext(r, moves \ {CHOOSE m \in moves : TRUE})
    ELSE FiftyNext(FiftyAfterPush(push(r.board, CHOOSE m \in moves : TRUE)),
                   moves \ {CHOOSE m \in moves : TRUE})

can_claim_fifty_moves(b) ==
    IF is_fifty_moves(b) THEN [board |-> b, ret |-> TRUE]
    ELSE IF b.halfmove_clock >= 99
    THEN FiftyNext([board |-> b, ret |-> FALSE], generate_legal_moves(b))
    ELSE [board |-> b, ret |-> FALSE]

\* outcome, from the claimable draws on
OutcomeAfterFifty(r) ==
    IF r.ret THEN Some(Outcome("FIFTY_MOVES", nullopt))
    ELSE IF can_claim_threefold_repetition(r.board).ret
    THEN Some(Outcome("THREEFOLD_REPETITION", nullopt))
    ELSE nullopt

\* outcome, from the fivefold repetition on
OutcomeAfterFivefold(r, claim_draw) ==
    IF r.ret THEN Some(Outcome("FIVEFOLD_REPETITION", nullopt))
    ELSE IF claim_draw THEN OutcomeAfterFifty(can_claim_fifty_moves(r.board))
    ELSE nullopt

\* outcome: is_variant_loss, is_variant_win and is_variant_draw are false
outcome(b, claim_draw) ==
    IF is_checkmate(b) THEN Some(Outcome("CHECKMATE", Some(NotColor(b.turn))))
    ELSE IF is_insufficient_material(b)
    THEN Some(Outcome("INSUFFICIENT_MATERIAL", nullopt))
    ELSE IF no_legal_moves(b) THEN Some(Outcome("STALEMATE", nullopt))
    ELSE IF is_seventyfive_moves(b)
    THEN Some(Outcome("SEVENTYFIVE_MOVES", nullopt))
    ELSE OutcomeAfterFivefold(is_fivefold_repetition(b), claim_draw)

(***************************************************************************)
(* SpecOutcome: the positions of SpecMate with the halfmove clock below,    *)
(* at and beyond the draw limits; outcome() is asked with and without      *)
(* claim_draw, and Outcome::result with and without a winner               *)
(***************************************************************************)
OutcomeClocks == {0, 100, 150}

\* the terminations Outcome::result is asked about
Terminations == {"CHECKMATE", "STALEMATE"}

InitOutcome ==
    /\ board \in {[b EXCEPT !.halfmove_clock = n] :
                     b \in MatePositions, n \in OutcomeClocks}
    /\ call = <<"init">>
    /\ ret = nullopt

call_outcome ==
    \E claim_draw \in BOOLEAN :
        /\ call' = <<"outcome", claim_draw>>
        /\ ret' = outcome(board, claim_draw)
        /\ UNCHANGED board

call_Outcome_result ==
    \E termination \in Terminations, winner \in {nullopt, Some(WHITE), Some(BLACK)} :
        /\ call' = <<"Outcome::result", Outcome(termination, winner)>>
        /\ ret' = Outcome_result(Outcome(termination, winner))
        /\ UNCHANGED board

NextOutcome == call_outcome \/ call_Outcome_result

SpecOutcome == InitOutcome /\ [][NextOutcome]_vars

(***************************************************************************)
(* C25: when the side to move is checkmated, outcome() returns the         *)
(* termination CHECKMATE with the winner being the colour opposite to the  *)
(* side to move, whatever draw condition holds as well; and                *)
(* Outcome::result() is "1-0" when the winner is White, "0-1" when the     *)
(* winner is Black and "1/2-1/2" when there is no winner.                  *)
(***************************************************************************)
C25_CheckmateOutcome ==
    /\ (/\ call[1] = "outcome"
        /\ spec_is_check(board)
        /\ generate_legal_moves(board) = {})
       => ret = Some(Outcome("CHECKMATE", Some(NotColor(board.turn))))
    /\ call[1] = "Outcome::result" =>
          ret = (IF call[2].winner = Some(WHITE) THEN "1-0"
                 ELSE IF call[2].winner = Some(BLACK) THEN "0-1"
                 ELSE "1/2-1/2")

(***************************************************************************)
(* SpecPseudo: is_pseudo_legal on the position of SpecGame, either side to *)
(* move, for every move between a few squares with and without a           *)
(* promotion, the null move and drops                                      *)
(***************************************************************************)
PseudoSquares ==
    {SQ_A1, SQ_E1, SQ_G1, SQ_H1, SQ_E2, SQ_D3, SQ_D4, SQ_E4, SQ_C6, SQ_A7,
     SQ_A8, SQ_B8, SQ_E8}

PseudoMoves ==
    {Move(f, t, p) : f \in PseudoSquares, t \in PseudoSquares,
                     p \in {nullopt, Some(QUEEN)}}
        \cup {[from_square |-> s, to_square |-> s, promotion |-> nullopt,
               drop |-> Some(PAWN)] : s \in PseudoSquares}

InitPseudo ==
    /\ board \in {[GamePosition(chess960) EXCEPT !.turn = turn] :
                     chess960 \in BOOLEAN, turn \in Colors}
    /\ call = <<"init">>
    /\ ret = nullopt

call_is_pseudo_legal ==
    \E m \in PseudoMoves :
        /\ call' = <<"is_pseudo_legal", m>>
        /\ ret' = is_pseudo_legal(board, m)
        /\ UNCHANGED board

NextPseudo == call_is_pseudo_legal

SpecPseudo == InitPseudo /\ [][NextPseudo]_vars

\* the last rank of the side to move
LastRank(b) == IF b.turn = WHITE THEN BB_RANK_8 ELSE BB_RANK_1

\* the moves is_pseudo_legal has to turn down
NotPseudoLegal(b, m) ==
    \/ m = Move_null
    \/ has_value(m.drop)
    \/ m.from_square \notin b.occupied
    \/ m.from_square \in b.occupied_co[NotColor(b.turn)]
    \/ m.to_square \in b.occupied_co[b.turn] /\ ~is_castling(b, m)
    \/ /\ has_value(m.promotion)
       /\ \/ m.from_square \notin b.pawns
          \/ m.to_square \notin LastRank(b)

(***************************************************************************)
(* C26: is_pseudo_legal(m) never fails and returns false for the null      *)
(* move, for every drop move, for every move whose from-square is empty,   *)
(* for every move whose from-square holds a piece of the side that is not  *)
(* to move, for every move landing on a piece of the side to move (other   *)
(* than a castling move), and for every promotion by a non-pawn or to a    *)
(* square off the mover's last rank.                                       *)
(***************************************************************************)
C26_PseudoLegalRejects ==
    call[1] = "is_pseudo_legal" =>
        /\ ret \in BOOLEAN
        /\ NotPseudoLegal(board, call[2]) => ret = FALSE

(***************************************************************************)
(* SquareSet: the set comparisons.  A SquareSet is its mask;               *)
(* operator&, operator~ and operator bool act on the mask.                 *)
(***************************************************************************)
SquareSet_isdisjoint(mask, other) == ~((mask \cap other) # BB_EMPTY)

SquareSet_issubset(mask, other) == ~((Not(mask) \cap other) # BB_EMPTY)

SquareSet_issuperset(mask, other) == ~((mask \cap Not(other)) # BB_EMPTY)

InitCompare ==
    /\ board \in SUBSET SquareSetBits
    /\ call = <<"init">>
    /\ ret = nullopt

call_isdisjoint ==
    \E other \in SUBSET SquareSetBits :
        /\ call' = <<"isdisjoint", other>>
        /\ ret' = SquareSet_isdisjoint(board, other)
        /\ UNCHANGED board

call_issubset ==
    \E other \in SUBSET SquareSetBits :
        /\ call' = <<"issubset", other>>
        /\ ret' = SquareSet_issubset(board, other)
        /\ UNCHANGED board

call_issuperset ==
    \E other \in SUBSET SquareSetBits :
        /\ call' = <<"issuperset", other>>
        /\ ret' = SquareSet_issuperset(board, other)
        /\ UNCHANGED board

NextCompare == call_isdisjoint \/ call_issubset \/ call_issuperset

SpecCompare == InitCompare /\ [][NextCompare]_vars

(***************************************************************************)
(* C27: for SquareSets A and B, A.issubset(B) is true iff every square of  *)
(* A is in B, A.issuperset(B) is true iff every square of B is in A, and   *)
(* A.isdisjoint(B) is true iff A and B share no square.                    *)
(***************************************************************************)
C27_SetComparisons ==
    /\ call[1] = "issubset" => (ret <=> \A s \in board : s \in call[2])
    /\ call[1] = "issuperset" => (ret <=> \A s \in call[2] : s \in board)
    /\ call[1] = "isdisjoint" => (ret <=> ~\E s \in board : s \in call[2])

(***************************************************************************)
(* C28: for every board and every occupied square s, piece_at(s) returns a *)
(* piece whose type is the type of the single piece mask containing s and  *)
(* whose colour equals color_at(s) (White iff s is in occupied_co[White]); *)
(* remove_piece_at(s) returns that same piece; and piece_at(s) is absent   *)
(* iff s is not in occupied.  Checked on the boards of Spec.               *)
(***************************************************************************)
C28_PieceAt ==
    \A s \in AllSquares :
        /\ ~has_value(piece_at(board, s)) <=> s \notin board.occupied
        /\ s \in board.occupied =>
              /\ {p \in PieceTypes : s \in TypeMasks(board)[p]}
                    = {value(piece_at(board, s)).piece_type}
              /\ Some(value(piece_at(board, s)).color) = color_at(board, s)
              /\ value(piece_at(board, s)).color = WHITE
                    <=> s \in board.occupied_co[WHITE]
              /\ BaseBoard_remove_piece_at(board, s).ret = piece_at(board, s)

(***************************************************************************)
(* Board::remove_piece_at and Board::set_piece_at: the BaseBoard setter    *)
(* followed by clear_stack                                                 *)
(***************************************************************************)
Board_remove_piece_at(b, square) ==
    [board |-> clear_stack(BaseBoard_remove_piece_at(b, square).board),
     ret |-> BaseBoard_remove_piece_at(b, square).ret]

Board_set_piece_at(b, square, piece, was_promoted) ==
    clear_stack(BaseBoard_set_piece_at(b, square, piece, was_promoted))

(***************************************************************************)
(* SpecStack: moves pushed and popped on the position of SpecGame, mixed   *)
(* with the operations that reset, clear or edit the board.  The calls     *)
(* that empty the stacks record how many moves were on the stack before.   *)
(***************************************************************************)
\* the deepest move stack SpecStack builds
MaxStackPly == 2

StackSquares == {SQ_E2}

StackPieces == {Some(Piece(KNIGHT, WHITE))}

\* a double pawn advance, its en passant capture, a king move and a rook
\* move
StackMoves ==
    {Move(SQ_E2, SQ_E4, nullopt), Move(SQ_D4, SQ_E3, nullopt),
     Move(SQ_E8, SQ_D7, nullopt), Move(SQ_H1, SQ_G1, nullopt)}

do_push ==
    \E m \in StackMoves :
        /\ Len(board.move_stack) < MaxStackPly
        /\ is_pseudo_legal_move(board, m)
        /\ board' = push(board, m)
        /\ call' = <<"push", m>>
        /\ ret' = nullopt

do_pop ==
    /\ board.move_stack # <<>>
    /\ board' = pop(board).board
    /\ call' = <<"pop">>
    /\ ret' = pop(board).ret

do_reset ==
    /\ board' = reset(board)
    /\ call' = <<"reset", Len(board.move_stack)>>
    /\ ret' = nullopt

do_clear ==
    /\ board' = clear(board)
    /\ call' = <<"clear", Len(board.move_stack)>>
    /\ ret' = nullopt

do_reset_board ==
    /\ board' = Board_reset_board(board)
    /\ call' = <<"reset_board", Len(board.move_stack)>>
    /\ ret' = nullopt

do_clear_board ==
    /\ board' = Board_clear_board(board)
    /\ call' = <<"clear_board", Len(board.move_stack)>>
    /\ ret' = nullopt

do_clear_stack ==
    /\ board' = clear_stack(board)
    /\ call' = <<"clear_stack", Len(board.move_stack)>>
    /\ ret' = nullopt

do_set_piece_at ==
    \E sq \in StackSquares, piece \in StackPieces :
        /\ board' = Board_set_piece_at(board, sq, piece, FALSE)
        /\ call' = <<"set_piece_at", Len(board.move_stack), sq, piece>>
        /\ ret' = nullopt

do_remove_piece_at ==
    \E sq \in StackSquares :
        /\ board' = Board_remove_piece_at(board, sq).board
        /\ call' = <<"remove_piece_at", Len(board.move_stack), sq>>
        /\ ret' = Board_remove_piece_at(board, sq).ret

NextStack ==
    \/ do_push \/ do_pop
    \/ do_reset \/ do_clear \/ do_reset_board \/ do_clear_board
    \/ do_clear_stack \/ do_set_piece_at \/ do_remove_piece_at

SpecStack == InitGame /\ [][NextStack]_vars

\* the calls that empty the stacks
StackClearingCalls ==
    {"reset", "clear", "reset_board", "clear_board", "clear_stack",
     "set_piece_at", "remove_piece_at"}

(***************************************************************************)
(* C29: after any sequence of the Board operations push, pop, reset,       *)
(* clear, reset_board, clear_board, clear_stack, set_piece_at and          *)
(* remove_piece_at, move_stack and _stack have the same length (one        *)
(* snapshot per pushed move); reset, clear, reset_board, clear_board,      *)
(* clear_stack, set_piece_at and remove_piece_at each leave both empty.    *)
(***************************************************************************)
C29_StacksAligned ==
    /\ Len(board.move_stack) = Len(board._stack)
    /\ call[1] \in StackClearingCalls =>
          board.move_stack = <<>> /\ board._stack = <<>>

\* remove_piece_at has emptied the stacks of a game of two moves or more
C29_Witness ==
    /\ call[1] = "remove_piece_at"
    /\ call[2] >= 2
    /\ board.move_stack = <<>> /\ board._stack = <<>>

(***************************************************************************)
(* SpecFrame: the game of SpecRep, started with the halfmove clock at 0 or *)
(* twelve short of the fifty-move limit, with the three draw queries asked *)
(* after every move.  Each query records the board it was asked on.        *)
(***************************************************************************)
\* the deepest move stack SpecFrame builds: twelve plies bring the starting
\* position back for the fourth time
MaxFramePly == 12

FrameClocks == {0, 88}

InitFrame ==
    /\ board \in {[reset(BlankBoard) EXCEPT !.halfmove_clock = n] : n \in FrameClocks}
    /\ call = <<"init">>
    /\ ret = nullopt

frame_play_move ==
    \E m \in RepMoves :
        /\ Len(board.move_stack) < MaxFramePly
        /\ is_legal_move(board, m)
        /\ board' = push(board, m)
        /\ call' = <<"push", m>>
        /\ ret' = nullopt

frame_is_repetition ==
    \E count \in {1, 3} :
        /\ call[1] = "push"
        /\ board' = is_repetition(board, count).board
        /\ call' = <<"is_repetition", board, count>>
        /\ ret' = is_repetition(board, count).ret

frame_can_claim_threefold_repetition ==
    /\ call[1] = "push"
    /\ board' = can_claim_threefold_repetition(board).board
    /\ call' = <<"can_claim_threefold_repetition", board>>
    /\ ret' = can_claim_threefold_repetition(board).ret

frame_can_claim_fifty_moves ==
    /\ call[1] = "push"
    /\ board' = can_claim_fifty_moves(board).board
    /\ call' = <<"can_claim_fifty_moves", board>>
    /\ ret' = can_claim_fifty_moves(board).ret

NextFrame ==
    \/ frame_play_move \/ frame_is_repetition
    \/ frame_can_claim_threefold_repetition \/ frame_can_claim_fifty_moves

SpecFrame == InitFrame /\ [][NextFrame]_vars

DrawQueries ==
    {"is_repetition", "can_claim_threefold_repetition", "can_claim_fifty_moves"}

(***************************************************************************)
(* C30: on every exit path (early return, return after an irreversible     *)
(* move is met, return after the stack is exhausted, return from inside    *)
(* the legal-move loop), can_claim_threefold_repetition(),                 *)
(* is_repetition(n) and can_claim_fifty_moves() leave the board exactly as *)
(* it was before the call: the same move_stack in the same order, the same *)
(* _stack length, and every position field unchanged.                      *)
(***************************************************************************)
C30_QueriesRestoreBoard ==
    call[1] \in DrawQueries =>
        /\ board.move_stack = call[2].move_stack
        /\ Len(board._stack) = Len(call[2]._stack)
        /\ board = call[2]

\* can_claim_threefold_repetition has answered true from inside its
\* legal-move loop, with eleven moves taken back and pushed again
C30_Witness ==
    /\ call[1] = "can_claim_threefold_repetition"
    /\ ret = TRUE
    /\ Len(call[2].move_stack) = 11
    /\ board = call[2]

====
